---- MODULE Spec2Model ----
(***************************************************************************)
(* Audio Program Generator (apg-web): the audio generation pipeline.       *)
(*                                                                         *)
(*   - TTSCacheService   (scripts/services/TTSCacheService.js)             *)
(*   - OpenAITTSAdapter  (services/OpenAITTSAdapter.js)                    *)
(*   - TTSService.generatePhrase                                           *)
(*   - AudioService      (decodeAudioData, createSilence,                  *)
(*                        concatenateBuffers, audioBufferToMP3)            *)
(*   - AppController     (handleSubmit, generateOrGetCachedSpeech,         *)
(*                        handleStopGeneration, handleClearCache)          *)
(*                       (handleDownload, handlePlay, handleStop)          *)
(*   - GoogleCloudTTSAdapter (generateSpeech, playPhrasesWebAPI,           *)
(*                        stopSpeech, sleepCancellable)                    *)
(*   - parseTextFile     (scripts/utils/parser.js)                         *)
(*                                                                         *)
(* Strings are sequences of UTF-16 code units, so that the cache key is    *)
(* computed the way generateKey computes it.  32-bit integers are kept as  *)
(* two 16-bit halves <<hi, lo>>.                                           *)
(***************************************************************************)
EXTENDS Integers, Sequences, FiniteSets, TLC

(***************************************************************************)
(* Bounds of the model.                                                    *)
(***************************************************************************)
\* number of handleSubmit invocations explored in one behaviour
MaxRuns == 2
\* length of the provider's scripted response queue
MaxScript == 2
\* number of direct cache API calls explored in one behaviour (SpecCache)
MaxCacheOps == 3
\* highest value the clock behind Date.now() reaches
MaxClock == 1
\* number of pruneCache calls (the application makes one, at startup)
MaxPrunes == 1
\* longest options.duration, in seconds, handed to an adapter call
MaxDuration == 2
\* number of phrases of the longest phrase list submitted
MaxPhrases == 2
\* number of properties of the largest options object handed to generateKey
MaxOptions == 3
\* number of MP3 frames of the longest buffer handed to the encoder
MaxFrames == 12
\* number of encodes explored in one behaviour (SpecMP3)
MaxEncodes == 2
\* number of playPhrasesWebAPI calls explored in one behaviour (SpecPlay)
MaxPlays == 2
\* length, in code units, of the longest content handed to parseTextFile
MaxContent == 4
\* number of buffers of the longest list handed to concatenateBuffers
MaxBuffers == 2
\* length, in samples, of the longest buffer handed to mixBuffers and applyFades
MaxLength == 4

(***************************************************************************)
(* Strings (code-unit sequences) used by the model.                        *)
(***************************************************************************)
StrEmpty == << >>
\* "*"
StrStar == <<42>>
\* "Aa"
StrAa == <<65, 97>>
\* "BB"
StrBB == <<66, 66>>
\* "openai"
StrOpenai == <<111, 112, 101, 110, 97, 105>>
\* "gtts"
StrGtts == <<103, 116, 116, 115>>
\* "voice", "model", "speed", "format"
StrVoice == <<118, 111, 105, 99, 101>>
StrModel == <<109, 111, 100, 101, 108>>
StrSpeed == <<115, 112, 101, 101, 100>>
StrFormat == <<102, 111, 114, 109, 97, 116>>
\* "nova", "tts-1", "wav"
StrNova == <<110, 111, 118, 97>>
StrTts1 == <<116, 116, 115, 45, 49>>
StrWav == <<119, 97, 118>>
\* "tts_"
StrKeyPrefix == <<116, 116, 115, 95>>

SVal(s) == [t |-> "s", v |-> s]
NVal(n) == [t |-> "n", v |-> n]

(***************************************************************************)
(* TTSCacheService.generateKey                                             *)
(***************************************************************************)
\* s < t in the code-unit order Array.prototype.sort uses by default
RECURSIVE StrLess(_, _)
StrLess(s, t) ==
  IF t = << >> THEN FALSE
  ELSE IF s = << >> THEN TRUE
  ELSE IF Head(s) # Head(t) THEN Head(s) < Head(t)
  ELSE StrLess(Tail(s), Tail(t))

RECURSIVE InsertSorted(_, _)
InsertSorted(k, ks) ==
  IF ks = << >> THEN <<k>>
  ELSE IF StrLess(Head(ks), k) \/ Head(ks) = k
       THEN <<Head(ks)>> \o InsertSorted(k, Tail(ks))
       ELSE <<k>> \o ks

\* variant: Object.keys(options), not sorted
InsertionOrderKeys(options) == [i \in 1..Len(options) |-> options[i][1]]

\* Object.keys(options).sort(): options is the sequence of <<key, value>>
\* properties in insertion order
RECURSIVE SortedKeys(_)
SortedKeys(options) ==
  IF options = << >> THEN << >>
  ELSE InsertSorted(Head(options)[1], SortedKeys(Tail(options)))

\* options[key]
OptionValue(options, key) ==
  LET i == CHOOSE j \in 1..Len(options) : options[j][1] = key
  IN  options[i][2]

RECURSIVE DecimalDigits(_)
DecimalDigits(n) ==
  IF n < 10 THEN <<48 + n>>
  ELSE DecimalDigits(n \div 10) \o <<48 + (n % 10)>>

\* JSON text of one property value: a quoted string or a number
JsonValue(val) ==
  IF val.t = "s" THEN <<34>> \o val.v \o <<34>>
  ELSE DecimalDigits(val.v)

RECURSIVE JsonMembers(_, _)
JsonMembers(options, keys) ==
  IF keys = << >> THEN << >>
  ELSE LET k == Head(keys)
           member == <<34>> \o k \o <<34, 58>> \o JsonValue(OptionValue(options, k))
       IN  IF Tail(keys) = << >> THEN member
           ELSE member \o <<44>> \o JsonMembers(options, Tail(keys))

\* JSON.stringify(options, Object.keys(options).sort())
StringifyOptions(options) ==
  <<123>> \o JsonMembers(options, SortedKeys(options)) \o <<125>>

\* `${engine}:${text}:${optionsStr}`
Combined(text, engine, options) ==
  engine \o <<58>> \o text \o <<58>> \o StringifyOptions(options)

\* 32-bit words as <<hi, lo>>, both in 0..65535
Shl5(w) ==
  LET lo32 == w[2] * 32
  IN  <<(w[1] * 32 + lo32 \div 65536) % 65536, lo32 % 65536>>

Sub32(a, b) ==
  LET lo == a[2] - b[2]
      borrow == IF lo < 0 THEN 1 ELSE 0
  IN  <<(a[1] - b[1] - borrow) % 65536, lo % 65536>>

Add32(a, n) ==
  LET lo == a[2] + n
  IN  <<(a[1] + lo \div 65536) % 65536, lo % 65536>>

IsNegative32(w) == w[1] >= 32768

\* hash = ((hash << 5) - hash) + char; hash = hash & hash
HashStep(hash, char) == Add32(Sub32(Shl5(hash), hash), char)

\* (x * y) mod 2^16 for 16-bit x, y, without leaving 32 bits
MulLow16(x, y) ==
  ((x % 256) * y + ((x \div 256) * (y % 256)) * 256) % 65536

\* x * y for 16-bit x, y, as a word
MulFull16(x, y) ==
  LET q == (x \div 256) * y
      r == (x % 256) * y
      sumlo == (q % 256) * 256 + (r % 65536)
  IN  <<((q \div 256) + (r \div 65536) + (sumlo \div 65536)) % 65536, sumlo % 65536>>

\* (a * b) mod 2^32
Mul32(a, b) ==
  LET p == MulFull16(a[2], b[2])
  IN  <<(p[1] + MulLow16(a[1], b[2]) + MulLow16(a[2], b[1])) % 65536, p[2]>>

\* (a + b) mod 2^32
AddWord32(a, b) ==
  LET lo == a[2] + b[2]
  IN  <<(a[1] + b[1] + (lo \div 65536)) % 65536, lo % 65536>>

\* 31^k mod 2^32
RECURSIVE Pow31(_)
Pow31(k) ==
  IF k = 0 THEN <<0, 1>>
  ELSE LET h == Pow31(k \div 2)
           sq == Mul32(h, h)
       IN  IF k % 2 = 1 THEN Mul32(sq, <<0, 31>>) ELSE sq

\* The loop `for (i...) { hash = ((hash << 5) - hash) + char; hash &= hash }`
\* over s[lo..hi], started from hash 0.  One step multiplies the hash by 31
\* (mod 2^32) and adds the code unit, so the loop over a \o b ends in
\* loop(a) * 31^Len(b) + loop(b); the loop is evaluated in halves that way
\* to keep the evaluation shallow.
RECURSIVE HashRange(_, _, _)
HashRange(s, lo, hi) ==
  IF lo > hi THEN <<0, 0>>
  ELSE IF lo = hi THEN HashStep(<<0, 0>>, s[lo])
  ELSE IF lo + 1 = hi THEN HashStep(HashStep(<<0, 0>>, s[lo]), s[hi])
  ELSE LET mid == (lo + hi) \div 2
       IN  AddWord32(Mul32(HashRange(s, lo, mid), Pow31(hi - mid)),
                     HashRange(s, mid + 1, hi))

\* the hash of the whole string
Hash(s) == HashRange(s, 1, Len(s))

\* Math.abs(hash), as an unsigned 32-bit word (2^31 for the most negative hash)
Abs32(w) == IF IsNegative32(w) THEN Sub32(<<0, 0>>, w) ELSE w

Base36Digit(d) == IF d < 10 THEN 48 + d ELSE 87 + d

\* n.toString(36) for a word <<hi, lo>>
RECURSIVE ToString36(_)
ToString36(w) ==
  LET qhi == w[1] \div 36
      rhi == w[1] % 36
      mid == rhi * 65536 + w[2]
      qlo == mid \div 36
      r == mid % 36
      q == <<qhi, qlo>>
  IN  IF q = <<0, 0>> THEN <<Base36Digit(r)>>
      ELSE ToString36(q) \o <<Base36Digit(r)>>

\* the body of generateKey
ComputeKey(text, engine, options) ==
  StrKeyPrefix \o ToString36(Abs32(Hash(Combined(text, engine, options))))

(***************************************************************************)
(* Blobs, phrases and the inputs the model draws.                          *)
(***************************************************************************)
\* a Blob: its byte length and which bytes it holds
Blob(size, data) == [size |-> size, data |-> data]
NoBlob == [size |-> 0, data |-> "null"]
\* a zero-byte payload
EmptyBlob == Blob(0, "empty")
\* decodable speech audio
SpeechBlob == Blob(1024, "speech")
\* non-empty bytes the decoder rejects
CorruptBlob == Blob(16, "corrupt")
\* the WAV a generateSilence call builds
SilenceBlob == Blob(48044, "silence")
\* a long recording, 60 MB
BigBlob == Blob(60 * 1024 * 1024, "big")

\* ttsOptions of the OpenAI branch with the form's defaults
OpenAIOptions ==
  << <<StrVoice, SVal(StrNova)>>, <<StrModel, SVal(StrTts1)>>,
     <<StrSpeed, NVal(1)>>, <<StrFormat, SVal(StrWav)>> >>

\* the (text, engine, options) triples the model passes to the cache API
VoiceNova == << <<StrVoice, SVal(StrNova)>> >>
ApiTriples ==
  { <<StrAa, StrOpenai, << >> >>, <<StrBB, StrOpenai, << >> >>,
    <<StrAa, StrGtts, << >> >>, <<StrAa, StrOpenai, VoiceNova>>,
    <<StrEmpty, StrOpenai, << >> >> }
ApiBlobs == {SpeechBlob, BigBlob}

\* the triples the OpenAI branch of handleSubmit passes to the cache
PipelineTriples ==
  {<<t, StrOpenai, OpenAIOptions>> : t \in {StrAa, StrBB, StrStar}}

\* the option properties callers of generateKey pass
KeyProps ==
  { <<StrVoice, SVal(StrNova)>>, <<StrSpeed, NVal(1)>>, <<StrSpeed, NVal(2)>>,
    <<StrModel, SVal(StrTts1)>> }

RECURSIVE PropSeqs(_)
PropSeqs(n) ==
  IF n = 0 THEN {<< >>}
  ELSE {<<x>> \o q : x \in KeyProps, q \in PropSeqs(n - 1)}

\* options objects: properties in insertion order, no name twice
KeyOptions ==
  {o \in UNION {PropSeqs(n) : n \in 0..MaxOptions} :
     \A i, j \in 1..Len(o) : i # j => o[i][1] # o[j][1]}

KeyTriples == {<<StrAa, e, o>> : e \in {StrOpenai, StrGtts}, o \in KeyOptions}

\* the keys of the triples above, evaluated once
KnownKeys ==
  {<<t, ComputeKey(t[1], t[2], t[3])>> :
     t \in ApiTriples \cup PipelineTriples \cup KeyTriples}

generateKey(text, engine, options) ==
  IF \E p \in KnownKeys : p[1] = <<text, engine, options>>
  THEN (CHOOSE p \in KnownKeys : p[1] = <<text, engine, options>>)[2]
  ELSE ComputeKey(text, engine, options)

(***************************************************************************)
(* State.                                                                  *)
(***************************************************************************)
VARIABLES
  \* TTSCacheService: the IndexedDB object store, key -> entry
  cacheStore,
  \* the clock behind Date.now()
  now,
  \* pruneCache: "idle", or "stats" between getStats and the delete transaction
  prunePc,
  \* pruneCache: stats.totalSize read by getStats
  pruneStats,
  \* the last direct get call: [text, engine, options, result]
  lastGet,
  \* history: triple -> blob of the last set since the last clear or prune
  written,
  \* history: the triples ever passed to set with a non-empty text
  everSet,
  \* number of direct cache API calls made
  cacheOps,
  \* history of the last pruneCache call: the total size when it was called
  \* and when it completed, the timestamps of the entries it deleted and kept
  pruneLog,
  \* the last direct set call: [text, engine, options, changed], changed
  \* telling whether the object store differs after it
  lastSet

cacheVars == <<cacheStore, now, prunePc, pruneStats, lastGet, written, everSet, cacheOps,
               pruneLog, lastSet>>

VARIABLES
  \* OpenAITTSAdapter.apiKey is set
  apiKey,
  \* AppController.isGenerating, AppController.generationCancelled
  isGenerating, generationCancelled,
  \* AppController.currentAudioBuffer: the Program Audio, or NoAudio
  currentAudioBuffer,
  \* handleSubmit: the await it is suspended at, or "idle"
  pc,
  \* handleSubmit locals: phrases, i + 1, speechBlob, audioBuffers
  phrases, idx, speechBlob, audioBuffers,
  \* how the last handleSubmit ended, and the message showError was given
  outcome, errorShown,
  \* number of handleSubmit invocations so far
  runs,
  \* the provider: the responses it gives to the requests of the adapter call
  \* in progress, in order
  plan,
  \* the adapter call in progress or just finished
  call,
  \* history of the current run
  hist

pipeVars == <<apiKey, isGenerating, generationCancelled, currentAudioBuffer, pc,
              phrases, idx, speechBlob, audioBuffers, outcome, errorShown, runs,
              plan, call, hist>>

VARIABLES
  \* AudioService.encodingCancelled
  encodingCancelled,
  \* audioBufferToMP3: where the call in progress stands, or "idle"
  encPc,
  \* audioBufferToMP3 locals: samples, i, mp3Data (the frames pushed so far)
  encSamples, encI, mp3Data,
  \* the last value given to onProgress, -1 before the first
  encProgress,
  \* how the last audioBufferToMP3 call settled and the Blob it resolved with
  encResult, encBlob,
  \* number of audioBufferToMP3 calls so far
  encodes,
  \* history of the current call: the flag was set at one of its checks
  encFlagSeen,
  \* history of the current call: whether the encoder was created and the
  \* samples converted, the frames encoded, the onProgress calls made, the
  \* frames encoded since the loop last resumed from a yield, and what
  \* handleDownload shows for the way the call ended
  encHist

encVars == <<encodingCancelled, encPc, encSamples, encI, mp3Data, encProgress,
             encResult, encBlob, encodes, encFlagSeen, encHist>>

VARIABLES
  \* the last and the last but one call of generateKey: arguments and result
  keyLast, keyPrev

keyVars == <<keyLast, keyPrev>>

VARIABLES
  \* GoogleCloudTTSAdapter.cancelRequested
  cancelRequested,
  \* playPhrasesWebAPI: where the call in progress stands, or "idle"
  playPc,
  \* playPhrasesWebAPI locals: phrases and the loop index i (from 1)
  playPhrases, playI,
  \* locals of the promise around one utterance: hasEnded, and whether
  \* resumeInterval is still set
  hasEnded, resumeInterval,
  \* sleepCancellable locals: ms and elapsed
  sleepMs, elapsed,
  \* window.speechSynthesis: whether it is speaking, and the event it has
  \* queued for the utterance and not yet dispatched ("none" when none)
  speaking, utteranceEvent,
  \* how the last playPhrasesWebAPI call settled
  playResult,
  \* history of the current call: number of calls so far, whether stopSpeech
  \* was called during it and where the call stood then, and the utterances
  \* handed to speak() and the sleeps completed after that stopSpeech
  playHist

playVars == <<cancelRequested, playPc, playPhrases, playI, hasEnded,
              resumeInterval, sleepMs, elapsed, speaking, utteranceEvent,
              playResult, playHist>>

VARIABLES
  \* the last call of parseTextFile: its argument and how it ended
  parseLast,
  \* the last call of concatenateBuffers: its argument and how it ended
  concatLast,
  \* the last call of mixBuffers and of applyFades: arguments and result
  mixLast, fadeLast

fnVars == <<parseLast, concatLast, mixLast, fadeLast>>

VARIABLES
  \* a second audioBufferToMP3 call, started while the first is suspended:
  \* where it stands ("none" before it starts), its samples and i, and how
  \* it settled
  enc2,
  \* a second playPhrasesWebAPI call, made by handlePlay after handleStop
  \* while the stopped call has not settled: "none", "running" or "done"
  play2,
  \* a second handleSubmit, invoked while the first is suspended at an
  \* await: "none", "running" or how it ended
  gen2

moreVars == <<enc2, play2, gen2>>

otherVars == <<playVars, fnVars, moreVars>>

vars == <<cacheVars, pipeVars, encVars, keyVars, otherVars>>

(***************************************************************************)
(* TTSCacheService                                                         *)
(***************************************************************************)
\* maxCacheSizeMB * 1024 * 1024
MaxCacheBytes == 100 * 1024 * 1024
\* maxCacheSizeMB * 0.8 * 1024 * 1024
PruneTargetBytes == 80 * 1024 * 1024

\* text.length > 100 ? text.substring(0, 100) : text
TextPreview(text) == IF Len(text) > 100 THEN SubSeq(text, 1, 100) ELSE text

\* store.get(key): the entry, or NoEntry (undefined)
NoEntry == [key |-> << >>, blob |-> NoBlob]
StoreGet(store, key) == IF key \in DOMAIN store THEN store[key] ELSE NoEntry

\* store.put(entry), keyPath 'key'
StorePut(store, entry) ==
  [k \in DOMAIN store \cup {entry.key} |-> IF k = entry.key THEN entry ELSE store[k]]

\* get(text, engine, options): the cached blob or NoBlob (null)
CacheGet(store, text, engine, options) ==
  IF text = StrEmpty THEN NoBlob
  ELSE LET result == StoreGet(store, generateKey(text, engine, options))
       IN  IF result # NoEntry THEN result.blob ELSE NoBlob

\* set without its test of the text
CacheSetStoresEmpty(store, text, engine, options, blob, time) ==
  StorePut(store,
    [key |-> generateKey(text, engine, options),
     text |-> TextPreview(text),
     engine |-> engine,
     options |-> options,
     blob |-> blob,
     timestamp |-> time,
     size |-> blob.size])

\* set(text, engine, options, blob): the store afterwards
CacheSet(store, text, engine, options, blob, time) ==
  IF text = StrEmpty THEN store
  ELSE StorePut(store,
         [key |-> generateKey(text, engine, options),
          text |-> TextPreview(text),
          engine |-> engine,
          options |-> options,
          blob |-> blob,
          timestamp |-> time,
          size |-> blob.size])

\* clear()
CacheClear(store) == << >>

RECURSIVE SumSizes(_, _)
SumSizes(store, keys) ==
  IF keys = {} THEN 0
  ELSE LET k == CHOOSE x \in keys : TRUE
       IN  store[k].size + SumSizes(store, keys \ {k})

\* getStats().totalSize
TotalSize(store) == SumSizes(store, DOMAIN store)

\* a cursor opened in direction 'prev': highest timestamp first
NewestKey(store, keys) ==
  CHOOSE k \in keys : \A o \in keys \ {k} :
     \/ store[k].timestamp > store[o].timestamp
     \/ store[k].timestamp = store[o].timestamp /\ StrLess(o, k)

\* the entry the 'timestamp' index cursor visits first: lowest timestamp,
\* ties in key order
OldestKey(store, keys) ==
  CHOOSE k \in keys : \A o \in keys \ {k} :
     \/ store[k].timestamp < store[o].timestamp
     \/ store[k].timestamp = store[o].timestamp /\ StrLess(k, o)

\* the cursor loop of pruneCache: the keys pushed to toDelete
RECURSIVE PruneKeys(_, _, _)
PruneKeys(store, keys, currentSize) ==
  IF keys # {} /\ currentSize > PruneTargetBytes
  THEN LET k == OldestKey(store, keys)
       IN  {k} \cup PruneKeys(store, keys \ {k}, currentSize - store[k].size)
  ELSE {}

\* pruneCache after getStats returned totalSize: the store afterwards
CachePrune(store, totalSize) ==
  IF totalSize < MaxCacheBytes THEN store
  ELSE LET toDelete == PruneKeys(store, DOMAIN store, totalSize)
       IN  [k \in DOMAIN store \ toDelete |-> store[k]]

(***************************************************************************)
(* Direct use of the cache API (as the unit tests and the controller's     *)
(* initializeCache / handleClearCache use it).                             *)
(***************************************************************************)
NoGet == [text |-> StrEmpty, engine |-> StrEmpty, options |-> << >>,
          result |-> NoBlob, called |-> FALSE]

NoSet == [text |-> StrEmpty, engine |-> StrEmpty, options |-> << >>,
          changed |-> FALSE, called |-> FALSE]

Triple(text, engine, options) == <<text, engine, options>>

NoPrune == [calls |-> 0, done |-> FALSE, totalAtCall |-> 0, totalAfter |-> 0,
            deleted |-> {}, retained |-> {}]

\* the timestamps of the entries of a store
Timestamps(store) == {store[k].timestamp : k \in DOMAIN store}

CacheInit ==
  /\ cacheStore = << >>
  /\ now = 0
  /\ prunePc = "idle"
  /\ pruneStats = 0
  /\ lastGet = NoGet
  /\ written = << >>
  /\ everSet = {}
  /\ cacheOps = 0
  /\ pruneLog = NoPrune
  /\ lastSet = NoSet

\* Date.now() advances
Tick ==
  /\ now < MaxClock
  /\ now' = now + 1
  /\ UNCHANGED <<cacheStore, prunePc, pruneStats, lastGet, written, everSet, cacheOps, pruneLog,
               lastSet>>
  /\ UNCHANGED <<pipeVars, encVars, keyVars, otherVars>>

\* await cacheService.set(text, engine, options, blob)
ApiSet(text, engine, options, blob) ==
  /\ cacheOps < MaxCacheOps
  /\ cacheOps' = cacheOps + 1
  /\ cacheStore' = CacheSet(cacheStore, text, engine, options, blob, now)
  /\ IF text # StrEmpty
     THEN LET t == Triple(text, engine, options)
          IN  /\ written' = [x \in DOMAIN written \cup {t} |->
                               IF x = t THEN blob ELSE written[x]]
              /\ everSet' = everSet \cup {t}
     ELSE UNCHANGED <<written, everSet>>
  /\ lastGet' = NoGet
  /\ lastSet' = [text |-> text, engine |-> engine, options |-> options,
                 changed |-> cacheStore' # cacheStore, called |-> TRUE]
  /\ UNCHANGED <<now, prunePc, pruneStats, pruneLog>>
  /\ UNCHANGED <<pipeVars, encVars, keyVars, otherVars>>

\* await cacheService.get(text, engine, options)
ApiGet(text, engine, options) ==
  /\ lastGet' = [text |-> text, engine |-> engine, options |-> options,
                 result |-> CacheGet(cacheStore, text, engine, options),
                 called |-> TRUE]
  /\ UNCHANGED <<cacheStore, now, prunePc, pruneStats, written, everSet, cacheOps, pruneLog,
               lastSet>>
  /\ UNCHANGED <<pipeVars, encVars, keyVars, otherVars>>

\* await cacheService.clear()
ApiClear ==
  /\ cacheOps < MaxCacheOps
  /\ cacheOps' = cacheOps + 1
  /\ cacheStore' = CacheClear(cacheStore)
  /\ written' = << >>
  /\ lastGet' = NoGet
  /\ lastSet' = NoSet
  /\ UNCHANGED <<now, prunePc, pruneStats, everSet, pruneLog>>
  /\ UNCHANGED <<pipeVars, encVars, keyVars, otherVars>>

\* pruneCache up to its await of getStats
ApiPruneStats ==
  /\ pruneLog.calls < MaxPrunes
  /\ prunePc = "idle"
  /\ prunePc' = "stats"
  /\ pruneStats' = TotalSize(cacheStore)
  /\ pruneLog' = [NoPrune EXCEPT !.calls = pruneLog.calls + 1,
                                  !.totalAtCall = TotalSize(cacheStore)]
  /\ lastGet' = NoGet
  /\ lastSet' = NoSet
  /\ UNCHANGED <<cacheStore, now, written, everSet, cacheOps>>
  /\ UNCHANGED <<pipeVars, encVars, keyVars, otherVars>>

\* pruneCache after getStats: the size test and the cursor transaction
ApiPruneDelete ==
  /\ prunePc = "stats"
  /\ prunePc' = "idle"
  /\ pruneStats' = 0
  /\ cacheStore' = CachePrune(cacheStore, pruneStats)
  /\ pruneLog' = [pruneLog EXCEPT
                    !.done = TRUE,
                    !.totalAfter = TotalSize(cacheStore'),
                    !.deleted = {cacheStore[k].timestamp :
                                   k \in DOMAIN cacheStore \ DOMAIN cacheStore'},
                    !.retained = Timestamps(cacheStore')]
  /\ written' = << >>
  /\ lastGet' = NoGet
  /\ lastSet' = NoSet
  /\ UNCHANGED <<now, everSet, cacheOps>>
  /\ UNCHANGED <<pipeVars, encVars, keyVars, otherVars>>

NextCache ==
  \/ Tick
  \/ \E t \in ApiTriples, blob \in ApiBlobs : ApiSet(t[1], t[2], t[3], blob)
  \/ \E t \in ApiTriples : ApiGet(t[1], t[2], t[3])
  \/ ApiClear
  \/ ApiPruneStats
  \/ ApiPruneDelete

(***************************************************************************)
(* Direct calls of TTSCacheService.generateKey                             *)
(***************************************************************************)
NoKeyCall == [text |-> StrEmpty, engine |-> StrEmpty, options |-> << >>,
              key |-> << >>, called |-> FALSE]

KeyInit ==
  /\ keyLast = NoKeyCall
  /\ keyPrev = NoKeyCall

(***************************************************************************)
(* AudioService.audioBufferToMP3, cancelEncoding                           *)
(***************************************************************************)
\* const blockSize = 1152
blockSize == 1152
\* the yield period of the frame loop, in frames
YieldEvery == 10

MsgEncodingCancelled == "MP3 encoding cancelled by user"
MsgNoEncoder == "MP3 encoder not available"

\* buffer.length of the buffers handed to the encoder: whole frames, and one
\* sample less and more than whole frames
SampleCounts ==
  {0} \cup {n * blockSize + d : n \in 1..MaxFrames, d \in {-1, 0}}
      \cup {n * blockSize + 1 : n \in 1..(MaxFrames - 1)}

\* Math.ceil(samples / blockSize)
TotalBlocks(samples) == (samples + blockSize - 1) \div blockSize

\* variant: currentBlock is counted from 0
FrameProgressFromZero(i, samples) ==
  ((i \div blockSize) * 100) \div TotalBlocks(samples)

\* Math.floor((currentBlock / totalBlocks) * 100) with
\* currentBlock = Math.floor(i / blockSize) + 1.  For the frame counts of the
\* model the double quotient and product floor to the integer quotient.
FrameProgress(i, samples) ==
  (((i \div blockSize) + 1) * 100) \div TotalBlocks(samples)

NoMp3 == [type |-> "none", frames |-> 0]
\* new Blob(mp3Data, { type: 'audio/mp3' })
Mp3Blob(data) == [type |-> "audio/mp3", frames |-> data]

NoEncHist == [lame |-> TRUE, created |-> FALSE, converted |-> FALSE, frames |-> 0,
              reports |-> 0, sinceYield |-> 0, shown |-> "none", cancelled |-> FALSE]

\* variant: the encoder is taken to be loaded
isLameAvailableUnchecked(lamejs) == TRUE

\* isLameAvailable(): typeof lamejs !== 'undefined'
isLameAvailable(lamejs) == lamejs

\* error.message.includes('cancelled'), for the messages of the model
IncludesCancelled(message) ==
  message \in {MsgEncodingCancelled, "Generation cancelled by user"}

\* the catch block of handleDownload: a progress notice for a cancellation,
\* showError (an alert) for anything else
DownloadCatch(message) == IF IncludesCancelled(message) THEN "notice" ELSE "alert"

\* variant: no yield after the first frame
YieldDueAfterFirst(i) == i # 0 /\ i % (blockSize * YieldEvery) = 0

\* if (i % (blockSize * 10) === 0) after the frame at offset i
YieldDue(i) == i % (blockSize * YieldEvery) = 0

EncInit ==
  /\ encHist = NoEncHist
  /\ encodingCancelled = FALSE
  /\ encPc = "idle"
  /\ encSamples = 0
  /\ encI = 0
  /\ mp3Data = 0
  /\ encProgress = -1
  /\ encResult = "none"
  /\ encBlob = NoMp3
  /\ encodes = 0
  /\ encFlagSeen = FALSE

\* variant: the frame loop does not look at the flag
FrameCancelCheckNever(flag) == FALSE

\* if (this.encodingCancelled) at the top of a frame iteration
FrameCancelCheck(flag) == flag
\* if (this.encodingCancelled) before mp3encoder.flush()
FlushCancelCheck(flag) == flag

\* the call rejects with this message
EncodeThrows(message) ==
  /\ encPc' = "idle"
  /\ encResult' = message
  /\ encBlob' = NoMp3
  /\ encHist' = [(IF encPc = "idle" THEN [NoEncHist EXCEPT !.lame = FALSE] ELSE encHist)
                   EXCEPT !.shown = DownloadCatch(message)]

\* audioBufferToMP3 from its entry to the loop
StartEncode(samples, lameAvailable) ==
  /\ encPc = "idle"
  /\ encodes < MaxEncodes
  /\ encodes' = encodes + 1
  /\ encFlagSeen' = FALSE
  /\ IF ~isLameAvailable(lameAvailable)
     THEN /\ EncodeThrows(MsgNoEncoder)
          /\ UNCHANGED <<encodingCancelled, encSamples, encI, mp3Data, encProgress>>
     ELSE /\ encodingCancelled' = FALSE
          /\ encSamples' = samples
          /\ encI' = 0
          /\ mp3Data' = 0
          /\ encProgress' = -1
          /\ encPc' = "loop"
          /\ encResult' = "pending"
          /\ encBlob' = NoMp3
          /\ encHist' = [NoEncHist EXCEPT !.lame = lameAvailable, !.created = TRUE,
                                           !.converted = TRUE]
  /\ UNCHANGED <<cacheVars, pipeVars, keyVars, otherVars>>

\* one iteration of the frame loop: the cancellation check, encodeBuffer,
\* onProgress, and the periodic yield
EncodeFrame ==
  /\ encPc = "loop"
  /\ encI < encSamples
  /\ encFlagSeen' = (encFlagSeen \/ encodingCancelled)
  /\ IF FrameCancelCheck(encodingCancelled)
     THEN /\ EncodeThrows(MsgEncodingCancelled)
          /\ UNCHANGED <<encI, mp3Data, encProgress>>
     ELSE /\ mp3Data' = mp3Data + 1
          /\ encProgress' = FrameProgress(encI, encSamples)
          /\ encI' = encI + blockSize
          /\ encPc' = IF YieldDue(encI) THEN "yield" ELSE "loop"
          /\ encHist' = [encHist EXCEPT !.frames = @ + 1, !.reports = @ + 1,
                                        !.sinceYield = @ + 1]
          /\ UNCHANGED <<encResult, encBlob>>
  /\ UNCHANGED <<encodingCancelled, encSamples, encodes>>
  /\ UNCHANGED <<cacheVars, pipeVars, keyVars, otherVars>>

\* the setTimeout(resolve, 0) of a yield fires
EncodeResume ==
  /\ encPc = "yield"
  /\ encPc' = "loop"
  /\ encHist' = [encHist EXCEPT !.sinceYield = 0]
  /\ UNCHANGED <<encodingCancelled, encSamples, encI, mp3Data, encProgress,
                 encResult, encBlob, encodes, encFlagSeen>>
  /\ UNCHANGED <<cacheVars, pipeVars, keyVars, otherVars>>

\* after the loop: the cancellation check, flush, onProgress(100), the Blob
EncodeFlush ==
  /\ encPc = "loop"
  /\ encI >= encSamples
  /\ encFlagSeen' = (encFlagSeen \/ encodingCancelled)
  /\ IF FlushCancelCheck(encodingCancelled)
     THEN /\ EncodeThrows(MsgEncodingCancelled)
          /\ UNCHANGED <<mp3Data, encProgress>>
     ELSE /\ mp3Data' = mp3Data + 1
          /\ encProgress' = 100
          /\ encPc' = "idle"
          /\ encResult' = "resolved"
          /\ encBlob' = Mp3Blob(mp3Data')
          /\ encHist' = [encHist EXCEPT !.reports = @ + 1, !.shown = "saved"]
  /\ UNCHANGED <<encodingCancelled, encSamples, encI, encodes>>
  /\ UNCHANGED <<cacheVars, pipeVars, keyVars, otherVars>>

\* cancelEncoding(), called from an event handler: between calls, or while
\* the encoder is suspended at a yield
cancelEncoding ==
  /\ encPc \in {"idle", "yield"}
  /\ encodingCancelled' = TRUE
  /\ encHist' = [encHist EXCEPT !.cancelled = @ \/ encPc = "yield"]
  /\ UNCHANGED <<encPc, encSamples, encI, mp3Data, encProgress, encResult,
                 encBlob, encodes, encFlagSeen>>
  /\ UNCHANGED <<cacheVars, pipeVars, keyVars, otherVars>>

NextMP3 ==
  \/ \E samples \in SampleCounts, lameAvailable \in BOOLEAN :
       StartEncode(samples, lameAvailable)
  \/ EncodeFrame
  \/ EncodeResume
  \/ EncodeFlush
  \/ cancelEncoding

(***************************************************************************)
(* Two audioBufferToMP3 calls on one AudioService: the second is started   *)
(* while the first is suspended at a yield.  Each call has its own locals; *)
(* encodingCancelled is a field of the service, shared by both.  A call    *)
(* runs without interruption from one await to the next.                   *)
(***************************************************************************)
NoEnc2 == [pc |-> "none", samples |-> 0, i |-> 0, result |-> "none"]

\* the second call from its entry to the loop: it resets the shared flag
StartSecondEncode(samples) ==
  /\ encPc = "yield"
  /\ enc2.pc = "none"
  /\ isLameAvailable(encHist.lame)
  /\ encodingCancelled' = FALSE
  /\ enc2' = [pc |-> "loop", samples |-> samples, i |-> 0, result |-> "pending"]
  /\ UNCHANGED <<encPc, encSamples, encI, mp3Data, encProgress, encResult,
                 encBlob, encodes, encFlagSeen, encHist>>
  /\ UNCHANGED <<cacheVars, pipeVars, keyVars, playVars, fnVars, play2, gen2>>

\* one iteration of the frame loop of the second call
SecondEncodeFrame ==
  /\ enc2.pc = "loop"
  /\ enc2.i < enc2.samples
  /\ enc2' = IF FrameCancelCheck(encodingCancelled)
             THEN [enc2 EXCEPT !.pc = "done", !.result = MsgEncodingCancelled]
             ELSE [enc2 EXCEPT !.i = @ + blockSize,
                               !.pc = IF YieldDue(enc2.i) THEN "yield" ELSE "loop"]
  /\ UNCHANGED <<encVars, cacheVars, pipeVars, keyVars, playVars, fnVars, play2, gen2>>

\* the setTimeout(resolve, 0) of a yield of the second call fires
SecondEncodeResume ==
  /\ enc2.pc = "yield"
  /\ encPc # "loop"
  /\ enc2' = [enc2 EXCEPT !.pc = "loop"]
  /\ UNCHANGED <<encVars, cacheVars, pipeVars, keyVars, playVars, fnVars, play2, gen2>>

\* the second call after its loop: the cancellation check, flush, the Blob
SecondEncodeFlush ==
  /\ enc2.pc = "loop"
  /\ enc2.i >= enc2.samples
  /\ enc2' = [enc2 EXCEPT !.pc = "done",
                          !.result = IF FlushCancelCheck(encodingCancelled)
                                     THEN MsgEncodingCancelled ELSE "resolved"]
  /\ UNCHANGED <<encVars, cacheVars, pipeVars, keyVars, playVars, fnVars, play2, gen2>>

\* the samples of the second call: an empty buffer, one frame, eleven frames
SecondSampleCounts == {0, blockSize, 11 * blockSize}

\* the first call is started once, with the encoder loaded; no call runs
\* while the other is between two of its awaits
NextOverlap ==
  \/ encodes = 0 /\ \E samples \in SampleCounts : StartEncode(samples, TRUE)
  \/ enc2.pc # "loop" /\ EncodeFrame
  \/ enc2.pc # "loop" /\ EncodeResume
  \/ enc2.pc # "loop" /\ EncodeFlush
  \/ enc2.pc # "loop" /\ cancelEncoding
  \/ \E samples \in SecondSampleCounts : StartSecondEncode(samples)
  \/ SecondEncodeFrame
  \/ SecondEncodeResume
  \/ SecondEncodeFlush

(***************************************************************************)
(* OpenAITTSAdapter, TTSService.generatePhrase, AudioService               *)
(***************************************************************************)
\* what fetch can resolve or reject with
RespOk(blob) == [kind |-> "ok", blob |-> blob]
\* a response with ok = false: its statusText and what its body holds (valid
\* JSON or not, the text, and error.message of the parsed JSON, "" if absent)
HttpResponse(statusText, body) ==
  [kind |-> "http", blob |-> NoBlob, statusText |-> statusText, body |-> body]
JsonBody(text, errorMessage) == [json |-> TRUE, text |-> text, errorMessage |-> errorMessage]
TextBody(text) == [json |-> FALSE, text |-> text, errorMessage |-> ""]
RespHttpError ==
  HttpResponse("Unauthorized", JsonBody("{\"error\":{\"message\":\"Invalid API key\"}}", "Invalid API key"))
HttpErrors ==
  {RespHttpError,
   HttpResponse("Bad Request", JsonBody("{}", "")),
   HttpResponse("Internal Server Error", TextBody("Server error")),
   HttpResponse("Service Unavailable", TextBody(""))}
RespNetworkError == [kind |-> "net", blob |-> NoBlob]
Responses ==
  {RespOk(SpeechBlob), RespOk(EmptyBlob), RespOk(CorruptBlob),
   RespHttpError, RespNetworkError}

RECURSIVE SeqsOfLen(_, _)
SeqsOfLen(S, n) ==
  IF n = 0 THEN {<< >>}
  ELSE {<<x>> \o q : x \in S, q \in SeqsOfLen(S, n - 1)}

\* the provider's possible behaviours during one adapter call: any response
\* to the first request, a 200 response with or without a body to later ones
LaterResponses == {RespOk(SpeechBlob), RespOk(EmptyBlob)}
Plans == {<<r>> \o q : r \in Responses, q \in SeqsOfLen(LaterResponses, MaxScript - 1)}

MsgCancelled == "Generation cancelled by user"
MsgNoApiKey == "API key required for OpenAI TTS"
MsgApiError == "OpenAI TTS API error"
MsgNoGoogleApiKey == "API key required for Google Cloud TTS"
MsgGoogleApiError == "Google Cloud TTS API error"
MsgJsonSyntax == "SyntaxError: Unexpected token"
MsgNetwork == "Failed to fetch"
MsgEmptyBuffer == "Failed to decode audio: Cannot decode empty audio buffer"
MsgDecode == "Failed to decode audio"
MsgNoBuffers == "No buffers to concatenate"
MsgCacheRead == "Cache read failed"

\* generateSpeech before its fetch: what the call does for this text
GenerateSpeechEntry(text, hasKey) ==
  IF ~hasKey THEN "throw"
  ELSE IF text = StrEmpty \/ text = StrStar THEN "silence"
  ELSE "fetch"

\* errorMessage of the !response.ok branch: error.message of a JSON body,
\* the text of a body that is not JSON, else response.statusText
ErrorMessage(r) ==
  IF r.body.json
  THEN IF r.body.errorMessage # "" THEN r.body.errorMessage ELSE r.statusText
  ELSE IF r.body.text # "" THEN r.body.text ELSE r.statusText

\* generateSpeech after its fetch settled with response r: return the body
\* as a Blob, or throw; the Error thrown for a response that is not ok reads
\* `${message}: ${detail}`
GenerateSpeechOnResponse(r) ==
  IF r.kind = "net"
  THEN [do |-> "throw", message |-> MsgNetwork, detail |-> "", blob |-> NoBlob]
  ELSE IF r.kind = "http"
  THEN [do |-> "throw", message |-> MsgApiError, detail |-> ErrorMessage(r), blob |-> NoBlob]
  ELSE [do |-> "return", message |-> "", detail |-> "", blob |-> r.blob]

\* GoogleCloudTTSAdapter.generateSpeech after its fetch settled with
\* response r: for a response that is not ok the body is read with
\* response.json(), which rejects with a SyntaxError when it is not JSON
GoogleGenerateSpeechOnResponse(r) ==
  IF r.kind = "net"
  THEN [do |-> "throw", message |-> MsgNetwork, detail |-> "", blob |-> NoBlob]
  ELSE IF r.kind = "http"
  THEN IF r.body.json
       THEN [do |-> "throw", message |-> MsgGoogleApiError,
             detail |-> IF r.body.errorMessage # "" THEN r.body.errorMessage
                        ELSE r.statusText,
             blob |-> NoBlob]
       ELSE [do |-> "throw", message |-> MsgJsonSyntax, detail |-> "", blob |-> NoBlob]
  ELSE [do |-> "return", message |-> "", detail |-> "", blob |-> r.blob]

\* options.duration not given
Undefined == -1
\* generateSilence(duration): a WAV of 24000 * duration 16-bit mono samples
\* behind a 44-byte header
generateSilence(duration) == Blob(44 + 2 * (24000 * duration), "silence")
\* generateSilence(options.duration || 1)
SilenceFor(duration) ==
  generateSilence(IF duration = Undefined \/ duration = 0 THEN 1 ELSE duration)

\* decodeAudioData(arrayBuffer): "ok" or the message of the error thrown
DecodeAudioData(blob) ==
  IF blob.size = 0 THEN MsgEmptyBuffer
  ELSE IF blob.data = "corrupt" THEN MsgDecode
  ELSE "ok"

\* an AudioBuffer: what it holds; phrase is the index of the phrase it was
\* made for (history)
\* length in seconds of the speech the provider renders for a phrase
SpeechSeconds == 1
\* duration of the AudioBuffer decodeAudioData makes of a blob: a WAV built
\* by generateSilence holds (size - 44) / 2 samples at 24000 Hz
BlobSeconds(blob) ==
  IF blob.data = "silence" THEN (blob.size - 44) \div (2 * 24000) ELSE SpeechSeconds
DecodedBuffer(blob, k) ==
  [kind |-> "speech", data |-> blob.data, seconds |-> BlobSeconds(blob), phrase |-> k]
\* createSilence(duration)
createSilence(duration, k) == [kind |-> "silence", data |-> "zeros", seconds |-> duration, phrase |-> k]

NoAudio == [kind |-> "none", parts |-> << >>]
\* concatenateBuffers(buffers): the buffers' samples in list order
concatenateBuffers(buffers) == [kind |-> "program", parts |-> buffers]

(***************************************************************************)
(* AppController.handleSubmit, OpenAI branch                               *)
(***************************************************************************)
Phrase(text, duration) == [phrase |-> text, duration |-> duration]
\* the phrases parseTextFile can deliver
PhraseSet == {Phrase(StrAa, 1), Phrase(StrStar, 0)}
RECURSIVE SeqsUpTo(_, _)
SeqsUpTo(S, n) == IF n = 0 THEN {} ELSE SeqsOfLen(S, n) \cup SeqsUpTo(S, n - 1)
PhraseLists == SeqsUpTo(PhraseSet, MaxPhrases)

\* phrase.phrase || phrase.text || ''
PhraseText(phrase) == phrase.phrase

NoCall == [adapter |-> "openai", text |-> StrEmpty, duration |-> Undefined, requests |-> 0,
           received |-> << >>, status |-> "none", result |-> NoBlob,
           message |-> "", detail |-> ""]

\* history of a run: the cache and adapter operations of the iteration idx
\* stands at (the last one once the loop is left), how its lookup and its
\* cache write went, whether the phrase was in the store at the lookup; the
\* first iteration that started with the flag set, the iteration that threw,
\* and whether the run assigned currentAudioBuffer
NoHist == [ops |-> << >>, read |-> "none", write |-> "none", wasStored |-> FALSE,
           cancelSeen |-> 0, failedAt |-> 0, produced |-> FALSE]

Log(h, op, k) == [h EXCEPT !.ops = Append(@, <<op, k>>)]

\* the history at the start of iteration k
NewIteration(h, k) ==
  [h EXCEPT !.ops = << <<"get", k>> >>, !.read = "none", !.write = "none",
            !.wasStored = FALSE]

PipeInit ==
  /\ apiKey = FALSE
  /\ isGenerating = FALSE
  /\ generationCancelled = FALSE
  /\ currentAudioBuffer = NoAudio
  /\ pc = "idle"
  /\ phrases = << >>
  /\ idx = 0
  /\ speechBlob = NoBlob
  /\ audioBuffers = << >>
  /\ outcome = "none"
  /\ errorShown = "none"
  /\ runs = 0
  /\ plan = << >>
  /\ call = NoCall
  /\ hist = NoHist

(***************************************************************************)
(* GoogleCloudTTSAdapter.playPhrasesWebAPI, stopSpeech, sleepCancellable   *)
(***************************************************************************)
MsgPlaybackStopped == "Playback stopped by user"

\* new Error(`Speech synthesis failed: ${event.error}`)
SpeechFailed(error) ==
  IF error = "interrupted" THEN "Speech synthesis failed: interrupted"
  ELSE "Speech synthesis failed: synthesis-failed"

\* the events speechSynthesis.cancel() dispatches to an utterance that is
\* being spoken: an error event with error "interrupted", or, in browsers
\* that end the utterance instead, an end event
CancelEvents == {"interrupted", "end"}

\* the events an utterance that runs to its end dispatches
FinishEvents == {"end", "synthesis-failed"}

\* setInterval(..., 100) in sleepCancellable
SleepTickMs == 100

\* phrase.phrase === '*' || !phrase.phrase
IsSilencePhrase(phrase) == phrase.phrase = StrStar \/ phrase.phrase = StrEmpty

\* the phrase lists handed to playPhrasesWebAPI
PlayPhraseLists ==
  {<<Phrase(StrAa, 1), Phrase(StrStar, 1)>>,
   <<Phrase(StrStar, 1), Phrase(StrAa, 0)>>}

NoPlayHist == [calls |-> 0, stopped |-> FALSE, stoppedAt |-> "none",
               spoken |-> 0, slept |-> 0]

PlayInit ==
  /\ cancelRequested = FALSE
  /\ playPc = "idle"
  /\ playPhrases = << >>
  /\ playI = 0
  /\ hasEnded = FALSE
  /\ resumeInterval = FALSE
  /\ sleepMs = 0
  /\ elapsed = 0
  /\ speaking = FALSE
  /\ utteranceEvent = "none"
  /\ playResult = "none"
  /\ playHist = NoPlayHist

\* the call settles: it returns ("resolved") or throws the message.  The
\* resumeInterval of a settled promise is left out: its reject is without
\* effect and its cancel() repeats the one stopSpeech made.
PlayEnds(result) ==
  /\ playPc' = "idle"
  /\ playResult' = result
  /\ resumeInterval' = FALSE

\* await this.sleepCancellable(ms) begins
SleepBegins(ms) ==
  /\ playPc' = "sleep"
  /\ sleepMs' = ms
  /\ elapsed' = 0
  /\ UNCHANGED playResult
  /\ resumeInterval' = FALSE

\* the for loop of playPhrasesWebAPI from its top, at index i, to its next
\* await
PlayLoop(i) ==
  /\ playI' = i
  /\ IF i > Len(playPhrases)
     THEN PlayEnds("resolved") /\ UNCHANGED <<sleepMs, elapsed>>
     ELSE IF cancelRequested
     THEN PlayEnds(MsgPlaybackStopped) /\ UNCHANGED <<sleepMs, elapsed>>
     ELSE IF IsSilencePhrase(playPhrases[i])
     THEN SleepBegins(playPhrases[i].duration * 1000)
     ELSE /\ playPc' = "generate"
          /\ resumeInterval' = FALSE
          /\ UNCHANGED <<playResult, sleepMs, elapsed>>

\* playPhrasesWebAPI(phrases, options, onProgress) up to
\* await this.ensureVoicesLoaded().  An event still queued for an utterance
\* of an earlier call reaches handlers whose hasEnded is already true.
playPhrasesWebAPI(list) ==
  /\ playPc = "idle"
  /\ playHist.calls < MaxPlays
  /\ cancelRequested' = FALSE
  /\ speaking' = FALSE
  /\ utteranceEvent' = "none"
  /\ playPc' = "voices"
  /\ playPhrases' = list
  /\ playI' = 0
  /\ hasEnded' = FALSE
  /\ resumeInterval' = FALSE
  /\ sleepMs' = 0
  /\ elapsed' = 0
  /\ playResult' = "pending"
  /\ playHist' = [NoPlayHist EXCEPT !.calls = playHist.calls + 1]
  /\ UNCHANGED <<cacheVars, pipeVars, encVars, keyVars, fnVars, moreVars>>

\* ensureVoicesLoaded resolves and the loop starts
VoicesLoaded ==
  /\ playPc = "voices"
  /\ PlayLoop(1)
  /\ UNCHANGED <<cancelRequested, playPhrases, hasEnded, speaking,
                 utteranceEvent, playHist>>
  /\ UNCHANGED <<cacheVars, pipeVars, encVars, keyVars, fnVars, moreVars>>

\* generateSpeechWebAPI resolves and the executor of the utterance's promise
\* runs: the cancellation check, the handlers, speechSynthesis.cancel(), the
\* start timer and resumeInterval
UtteranceReady ==
  /\ playPc = "generate"
  /\ IF cancelRequested
     THEN /\ PlayEnds(MsgPlaybackStopped)
          /\ UNCHANGED <<hasEnded, speaking, utteranceEvent>>
     ELSE /\ hasEnded' = FALSE
          /\ speaking' = FALSE
          /\ utteranceEvent' = "none"
          /\ playPc' = "startDelay"
          /\ resumeInterval' = TRUE
          /\ UNCHANGED playResult
  /\ UNCHANGED <<cancelRequested, playPhrases, playI, sleepMs, elapsed, playHist>>
  /\ UNCHANGED <<cacheVars, pipeVars, encVars, keyVars, fnVars, moreVars>>

\* the start timer: setTimeout(() => {...speechSynthesis.speak(utterance)}, startDelay)
StartTimer ==
  /\ playPc = "startDelay"
  /\ IF cancelRequested
     THEN /\ PlayEnds(MsgPlaybackStopped)
          /\ UNCHANGED <<speaking, playHist>>
     ELSE /\ speaking' = TRUE
          /\ playPc' = "speaking"
          /\ playHist' = [playHist EXCEPT
                            !.spoken = IF playHist.stopped THEN @ + 1 ELSE @]
          /\ UNCHANGED <<playResult, resumeInterval>>
  /\ UNCHANGED <<cancelRequested, playPhrases, playI, hasEnded, sleepMs, elapsed,
                 utteranceEvent>>
  /\ UNCHANGED <<cacheVars, pipeVars, encVars, keyVars, fnVars, moreVars>>

\* one tick of resumeInterval
ResumeTick ==
  /\ resumeInterval
  /\ IF cancelRequested
     THEN /\ IF speaking
             THEN speaking' = FALSE /\ \E e \in CancelEvents : utteranceEvent' = e
             ELSE UNCHANGED <<speaking, utteranceEvent>>
          /\ IF ~hasEnded
             THEN hasEnded' = TRUE /\ PlayEnds(MsgPlaybackStopped)
             ELSE resumeInterval' = FALSE /\ UNCHANGED <<hasEnded, playPc, playResult>>
     ELSE /\ resumeInterval' = speaking
          /\ UNCHANGED <<speaking, utteranceEvent, hasEnded, playPc, playResult>>
  /\ UNCHANGED <<cancelRequested, playPhrases, playI, sleepMs, elapsed, playHist>>
  /\ UNCHANGED <<cacheVars, pipeVars, encVars, keyVars, fnVars, moreVars>>

\* the synthesizer comes to the end of the utterance, or fails on it, and
\* queues the event
SpeechFinishes(event) ==
  /\ speaking
  /\ speaking' = FALSE
  /\ utteranceEvent' = event
  /\ UNCHANGED <<cancelRequested, playPc, playPhrases, playI, hasEnded,
                 resumeInterval, sleepMs, elapsed, playResult, playHist>>
  /\ UNCHANGED <<cacheVars, pipeVars, encVars, keyVars, fnVars, moreVars>>

\* utterance.onend / utterance.onerror
UtteranceEvent ==
  /\ utteranceEvent # "none"
  /\ utteranceEvent' = "none"
  /\ IF hasEnded \/ playPc # "speaking"
     THEN UNCHANGED <<hasEnded, playPc, playResult, resumeInterval>>
     ELSE /\ hasEnded' = TRUE
          /\ IF utteranceEvent = "end"
             THEN playPc' = "endDelay" /\ UNCHANGED <<playResult, resumeInterval>>
             ELSE PlayEnds(SpeechFailed(utteranceEvent))
  /\ UNCHANGED <<cancelRequested, playPhrases, playI, sleepMs, elapsed, speaking,
                 playHist>>
  /\ UNCHANGED <<cacheVars, pipeVars, encVars, keyVars, fnVars, moreVars>>

\* setTimeout(resolve, delay) of onend, then the pause after the phrase or
\* the next iteration
EndTimer ==
  /\ playPc = "endDelay"
  /\ IF playPhrases[playI].duration > 0
     THEN SleepBegins(playPhrases[playI].duration * 1000) /\ UNCHANGED playI
     ELSE PlayLoop(playI + 1)
  /\ UNCHANGED <<cancelRequested, playPhrases, hasEnded, speaking, utteranceEvent,
                 playHist>>
  /\ UNCHANGED <<cacheVars, pipeVars, encVars, keyVars, fnVars, moreVars>>

\* one tick of the interval of sleepCancellable
SleepTick ==
  /\ playPc = "sleep"
  /\ IF cancelRequested
     THEN PlayEnds(MsgPlaybackStopped) /\ UNCHANGED <<playI, sleepMs, elapsed, playHist>>
     ELSE IF elapsed + SleepTickMs >= sleepMs
     THEN /\ PlayLoop(playI + 1)
          /\ playHist' = [playHist EXCEPT
                            !.slept = IF playHist.stopped THEN @ + 1 ELSE @]
     ELSE /\ elapsed' = elapsed + SleepTickMs
          /\ UNCHANGED <<playPc, playResult, resumeInterval, playI, sleepMs, playHist>>
  /\ UNCHANGED <<cancelRequested, playPhrases, hasEnded, speaking, utteranceEvent>>
  /\ UNCHANGED <<cacheVars, pipeVars, encVars, keyVars, fnVars, moreVars>>

\* stopSpeech(), called by handleStop while a playPhrasesWebAPI call runs
stopSpeech ==
  /\ playPc # "idle"
  /\ ~playHist.stopped
  /\ cancelRequested' = TRUE
  /\ IF speaking
     THEN speaking' = FALSE /\ \E e \in CancelEvents : utteranceEvent' = e
     ELSE UNCHANGED <<speaking, utteranceEvent>>
  /\ playHist' = [playHist EXCEPT !.stopped = TRUE, !.stoppedAt = playPc]
  /\ UNCHANGED <<playPc, playPhrases, playI, hasEnded, resumeInterval, sleepMs,
                 elapsed, playResult>>
  /\ UNCHANGED <<cacheVars, pipeVars, encVars, keyVars, fnVars, moreVars>>

\* handlePlay, invoked again after handleStop (which has set isPlaying to
\* false and enabled the play button) while the stopped playPhrasesWebAPI
\* call has not settled: the new call resets cancelRequested and calls
\* speechSynthesis.cancel() before its first await
handlePlayAgain ==
  /\ playHist.stopped
  /\ playPc # "idle"
  /\ play2 = "none"
  /\ play2' = "running"
  /\ cancelRequested' = FALSE
  /\ IF speaking
     THEN speaking' = FALSE /\ \E e \in CancelEvents : utteranceEvent' = e
     ELSE UNCHANGED <<speaking, utteranceEvent>>
  /\ UNCHANGED <<playPc, playPhrases, playI, hasEnded, resumeInterval, sleepMs,
                 elapsed, playResult, playHist>>
  /\ UNCHANGED <<cacheVars, pipeVars, encVars, keyVars, fnVars, enc2, gen2>>

\* the second call clears the synthesizer's queue before it speaks an
\* utterance of its own (speechSynthesis.cancel() in the executor): an
\* utterance of the first call that is being spoken is cancelled
SecondPlayClearsQueue ==
  /\ play2 = "running"
  /\ speaking
  /\ speaking' = FALSE
  /\ \E e \in CancelEvents : utteranceEvent' = e
  /\ UNCHANGED <<cancelRequested, playPc, playPhrases, playI, hasEnded,
                 resumeInterval, sleepMs, elapsed, playResult, playHist>>
  /\ UNCHANGED <<cacheVars, pipeVars, encVars, keyVars, fnVars, moreVars>>

\* the second call settles
SecondPlayEnds ==
  /\ play2 = "running"
  /\ play2' = "done"
  /\ UNCHANGED <<cacheVars, pipeVars, encVars, keyVars, playVars, fnVars, enc2, gen2>>

NextPlay ==
  \/ \E list \in PlayPhraseLists : playPhrasesWebAPI(list)
  \/ VoicesLoaded
  \/ UtteranceReady
  \/ StartTimer
  \/ ResumeTick
  \/ \E event \in FinishEvents : SpeechFinishes(event)
  \/ UtteranceEvent
  \/ EndTimer
  \/ SleepTick
  \/ stopSpeech

(***************************************************************************)
(* parseTextFile (scripts/utils/parser.js)                                 *)
(***************************************************************************)
MsgContentEmpty == "Content must be a non-empty string"
MsgInvalidLine == "Invalid line format"
MsgNoValidPhrases == "No valid phrases found in file"

\* code units: '\n', ';' and '.'
Newline == 10
Semicolon == 59
Dot == 46

\* the code units \s and trim() take for white space, among those of the model
Whitespace == {9, 10, 13, 32}
\* the code units the regular expression's . does not match
LineTerminators == {10, 13, 8232, 8233}

\* \s
IsSpace(c) == c \in Whitespace
\* \d
IsDigit(c) == c \in 48..57
\* variant: . matches every code unit
DotMatchesAll(c) == TRUE
\* .
DotMatches(c) == c \notin LineTerminators

AllSpace(s) == \A i \in 1..Len(s) : IsSpace(s[i])

\* String.prototype.trim
Trim(s) ==
  LET kept == {i \in 1..Len(s) : ~IsSpace(s[i])}
  IN  IF kept = {} THEN << >>
      ELSE SubSeq(s, CHOOSE i \in kept : \A j \in kept : i <= j,
                     CHOOSE i \in kept : \A j \in kept : i >= j)

\* s without its leading white space: what is left after a greedy \s*
SkipSpace(s) ==
  LET kept == {i \in 1..Len(s) : ~IsSpace(s[i])}
  IN  IF kept = {} THEN << >>
      ELSE SubSeq(s, CHOOSE i \in kept : \A j \in kept : i <= j, Len(s))

\* content.split('\n')
RECURSIVE Split(_)
Split(s) ==
  LET at == {i \in 1..Len(s) : s[i] = Newline}
  IN  IF at = {} THEN <<s>>
      ELSE LET i == CHOOSE i \in at : \A j \in at : i <= j
           IN  <<SubSeq(s, 1, i - 1)>> \o Split(SubSeq(s, i + 1, Len(s)))

\* the number of digits of s from position from on: a greedy \d+
DigitRun(s, from) ==
  LET stop == {i \in from..Len(s) : ~IsDigit(s[i])}
  IN  IF from > Len(s) THEN 0
      ELSE IF stop = {} THEN Len(s) - from + 1
      ELSE (CHOOSE i \in stop : \A j \in stop : i <= j) - from

\* the length of the prefix of s that \d+(?:\.\d+)? matches, 0 if none
NumberLen(s) ==
  LET whole == DigitRun(s, 1)
  IN  IF whole = 0 THEN 0
      ELSE IF whole + 1 <= Len(s) /\ s[whole + 1] = Dot /\ DigitRun(s, whole + 2) > 0
      THEN whole + 1 + DigitRun(s, whole + 2)
      ELSE whole

NoRest == [ok |-> FALSE, duration |-> << >>]
\* (?:;\s*(\d+(?:\.\d+)?)?)?\s*$ against the rest of the line: whether it
\* matches and the text of the duration group (empty when it took no part)
RestMatch(r) ==
  IF AllSpace(r) THEN [ok |-> TRUE, duration |-> << >>]
  ELSE IF Head(r) # Semicolon THEN NoRest
  ELSE LET s == SkipSpace(Tail(r))
           n == NumberLen(s)
       IN  IF s = << >> THEN [ok |-> TRUE, duration |-> << >>]
           ELSE IF n > 0 /\ AllSpace(SubSeq(s, n + 1, Len(s)))
           THEN [ok |-> TRUE, duration |-> SubSeq(s, 1, n)]
           ELSE NoRest

\* trimmed.match(/^(.+?)(?:;\s*(\d+(?:\.\d+)?)?)?\s*$/): the lazy first group
\* takes the shortest prefix after which the rest matches
LineMatch(trimmed) ==
  LET fits == {p \in 1..Len(trimmed) :
                 /\ \A i \in 1..p : DotMatches(trimmed[i])
                 /\ RestMatch(SubSeq(trimmed, p + 1, Len(trimmed))).ok}
  IN  IF fits = {} THEN [matched |-> FALSE, phraseRaw |-> << >>, duration |-> << >>]
      ELSE LET p == CHOOSE p \in fits : \A q \in fits : p <= q
           IN  [matched |-> TRUE, phraseRaw |-> SubSeq(trimmed, 1, p),
                duration |-> RestMatch(SubSeq(trimmed, p + 1, Len(trimmed))).duration]

\* phraseRaw.replace(/;\s*$/, '')
StripTrailingSemicolon(s) ==
  LET at == {i \in 1..Len(s) : s[i] = Semicolon /\ AllSpace(SubSeq(s, i + 1, Len(s)))}
  IN  IF at = {} THEN s
      ELSE SubSeq(s, 1, (CHOOSE i \in at : \A j \in at : i <= j) - 1)

\* a number: its integer part and its decimals without trailing zeros
Num(whole, frac) == [whole |-> whole, frac |-> frac]
Zero == Num(0, << >>)

RECURSIVE DigitsValue(_)
DigitsValue(d) ==
  IF d = << >> THEN 0
  ELSE 10 * DigitsValue(SubSeq(d, 1, Len(d) - 1)) + (d[Len(d)] - 48)

RECURSIVE DropTrailingZeros(_)
DropTrailingZeros(d) ==
  IF d # << >> /\ d[Len(d)] = 48 THEN DropTrailingZeros(SubSeq(d, 1, Len(d) - 1)) ELSE d

\* parseFloat(duration) for a text that \d+(?:\.\d+)? matched
parseFloat(d) ==
  LET whole == DigitRun(d, 1)
  IN  Num(DigitsValue(SubSeq(d, 1, whole)),
          DropTrailingZeros(SubSeq(d, whole + 2, Len(d))))

\* variant: phrases.unshift(...)
Unshift(list, phrase) == <<phrase>> \o list
\* phrases.push({phrase, duration})
Push(list, phrase) == Append(list, phrase)

\* the phrase pushed for a line that matched
LinePhrase(m) ==
  Phrase(Trim(StripTrailingSemicolon(m.phraseRaw)),
         IF m.duration # << >> THEN parseFloat(m.duration) ELSE Zero)

ParseReturns(list) == [status |-> "returned", phrases |-> list, error |-> "", line |-> << >>]
ParseThrows(message, line) ==
  [status |-> "thrown", phrases |-> << >>, error |-> message, line |-> line]

\* the for loop of parseTextFile from line i on, and the code after it
RECURSIVE ParseLines(_, _, _)
ParseLines(lines, i, list) ==
  IF i > Len(lines)
  THEN IF list = << >> THEN ParseThrows(MsgNoValidPhrases, << >>) ELSE ParseReturns(list)
  ELSE LET trimmed == Trim(lines[i])
           m == LineMatch(trimmed)
       IN  IF trimmed = << >> THEN ParseLines(lines, i + 1, list)
           ELSE IF ~m.matched THEN ParseThrows(MsgInvalidLine, trimmed)
           ELSE ParseLines(lines, i + 1, Push(list, LinePhrase(m)))

\* parseTextFile(content) for a string
parseTextFile(content) ==
  IF content = << >> THEN ParseThrows(MsgContentEmpty, << >>)
  ELSE ParseLines(Split(Trim(content)), 1, << >>)

\* the code units of the contents explored: a ; space \n \r 5
ParseAlphabet == {97, 59, 32, 10, 13, 53}

RECURSIVE StringsUpTo(_, _)
StringsUpTo(S, n) ==
  IF n = 0 THEN {<< >>}
  ELSE LET shorter == StringsUpTo(S, n - 1)
       IN  shorter \cup {Append(q, x) : q \in {r \in shorter : Len(r) = n - 1}, x \in S}

\* contents with decimal durations: "a;5.5", "a; 5.50" and "a;5."
DecimalContents ==
  {<<97, 59, 53, 46, 53>>, <<97, 59, 32, 53, 46, 53, 48>>, <<97, 59, 53, 46>>}

ParseContents == StringsUpTo(ParseAlphabet, MaxContent) \cup DecimalContents

NoParse == [called |-> FALSE, content |-> << >>, result |-> ParseReturns(<< >>)]

\* a call of parseTextFile(content)
CallParseTextFile(content) ==
  /\ parseLast' = [called |-> TRUE, content |-> content, result |-> parseTextFile(content)]
  /\ UNCHANGED <<concatLast, mixLast, fadeLast>>
  /\ UNCHANGED <<cacheVars, pipeVars, encVars, keyVars, playVars, moreVars>>

\* one call in a behaviour: the function keeps no state between calls
NextParse ==
  /\ ~parseLast.called
  /\ \E content \in ParseContents : CallParseTextFile(content)

(***************************************************************************)
(* AudioService.concatenateBuffers, sample by sample                       *)
(***************************************************************************)
\* the DOMException of getChannelData(channel) for a channel the buffer
\* does not have
MsgIndexSize == "IndexSizeError"

\* an AudioBuffer: channels[c][k] is sample k of channel c
AudioBuffer(sampleRate, channels) ==
  [sampleRate |-> sampleRate, numberOfChannels |-> Len(channels),
   length |-> Len(channels[1]), channels |-> channels]

\* context.createBuffer(numChannels, length, sampleRate): zeros
createBuffer(numChannels, length, sampleRate) ==
  AudioBuffer(sampleRate, [c \in 1..numChannels |-> [k \in 1..length |-> 0]])

\* a decoded buffer whose samples tell their buffer, channel and position
TaggedBuffer(b, numChannels, length, sampleRate) ==
  AudioBuffer(sampleRate,
              [c \in 1..numChannels |-> [k \in 1..length |-> 100 * b + 10 * c + k]])

SampleRates == {24000, 44100}
\* buffer.length of the buffers explored
BufferLengths == {0, 1, 2}
\* the buffers handed to concatenateBuffers: decoded audio of one or two
\* channels, and the one-channel buffers of createSilence
BufferKinds ==
  {<<kind, n, rate>> : kind \in {"mono", "stereo", "silence"},
                       n \in BufferLengths, rate \in SampleRates}

BufferOf(b, spec) ==
  IF spec[1] = "silence" THEN createBuffer(1, spec[2], spec[3])
  ELSE TaggedBuffer(b, IF spec[1] = "stereo" THEN 2 ELSE 1, spec[2], spec[3])

BufferLists ==
  UNION {{[b \in 1..n |-> BufferOf(b, specs[b])] : specs \in [1..n -> BufferKinds]} :
           n \in 0..MaxBuffers}

RECURSIVE SumLengths(_)
\* buffers.reduce((sum, buffer) => sum + buffer.length, 0)
SumLengths(list) ==
  IF list = << >> THEN 0 ELSE Head(list).length + SumLengths(Tail(list))

\* destData.set(sourceData, offset): dest with source written from
\* position offset + 1 on
SetAt(dest, source, offset) ==
  [k \in 1..Len(dest) |->
     IF k > offset /\ k <= offset + Len(source) THEN source[k - offset] ELSE dest[k]]

ConcatReturns(buffer) == [status |-> "returned", buffer |-> buffer, error |-> ""]
ConcatThrows(message) ==
  [status |-> "thrown", buffer |-> createBuffer(1, 0, 0), error |-> message]

\* the copy loop of concatenateBuffers from buffer b on
RECURSIVE CopyInto(_, _, _, _)
CopyInto(combined, list, b, offset) ==
  IF b > Len(list) THEN ConcatReturns(combined)
  ELSE IF list[b].numberOfChannels < combined.numberOfChannels
  THEN ConcatThrows(MsgIndexSize)
  ELSE CopyInto([combined EXCEPT !.channels =
                   [c \in 1..combined.numberOfChannels |->
                      SetAt(combined.channels[c], list[b].channels[c], offset)]],
                list, b + 1, offset + list[b].length)

\* concatenateBuffers(buffers) with every sample
concatenateSamples(list) ==
  IF Len(list) = 0 THEN ConcatThrows(MsgNoBuffers)
  ELSE CopyInto(createBuffer(list[1].numberOfChannels, SumLengths(list),
                             list[1].sampleRate),
                list, 1, 0)

NoConcat == [called |-> FALSE, buffers |-> << >>, result |-> ConcatThrows("")]

\* a call of concatenateBuffers(buffers)
CallConcatenate(list) ==
  /\ concatLast' = [called |-> TRUE, buffers |-> list, result |-> concatenateSamples(list)]
  /\ UNCHANGED <<parseLast, mixLast, fadeLast>>
  /\ UNCHANGED <<cacheVars, pipeVars, encVars, keyVars, playVars, moreVars>>

\* one call in a behaviour: the method keeps no state between calls
NextConcat ==
  /\ ~concatLast.called
  /\ \E list \in BufferLists : CallConcatenate(list)

(***************************************************************************)
(* AudioService.mixBuffers and AudioService.applyFades, sample by sample   *)
(***************************************************************************)
Min(a, b) == IF a <= b THEN a ELSE b
Max(a, b) == IF a >= b THEN a ELSE b

\* variant: past its end the background holds its last sample
LoopIndexClamped(i, n) == Min(i, n - 1)

\* i % sourceData.length
LoopIndex(i, n) == i % n

\* loopedData for one channel of buffer2: length samples, looped or cut
LoopedData(sourceData, length) ==
  [k \in 1..length |-> sourceData[LoopIndex(k - 1, Len(sourceData)) + 1]]

\* Math.pow(10, attenuation / 20) in tenths, for options.attenuation absent
\* or 0 (factor 1) and for -20 dB (factor 0.1)
AttenuationTenths(attenuation) ==
  IF attenuation = Undefined \/ attenuation = 0 THEN 10 ELSE 1

\* mixBuffers(buffer1, buffer2, { attenuation }); the samples of the result
\* are in tenths: 10 * (data1[i] + data2[i] * attenuationFactor)
mixBuffers(buffer1, buffer2, attenuation) ==
  LET numChannels == Max(buffer1.numberOfChannels, buffer2.numberOfChannels)
      length == buffer1.length
      buffer2Data == [c \in 1..buffer2.numberOfChannels |->
                        LoopedData(buffer2.channels[c], length)]
      data1(c) == buffer1.channels[Min(c, buffer1.numberOfChannels)]
      data2(c) == buffer2Data[Min(c, Len(buffer2Data))]
  IN  [sampleRate |-> buffer1.sampleRate,
       numberOfChannels |-> numChannels,
       length |-> length,
       channels |-> [c \in 1..numChannels |->
                       [k \in 1..length |->
                          10 * data1(c)[k] + data2(c)[k] * AttenuationTenths(attenuation)]]]

\* the buffers handed to mixBuffers: speech and background of one or two
\* channels and of 1..MaxLength samples, with and without attenuation
MixInputs ==
  {<<TaggedBuffer(1, c1, n1, 44100), TaggedBuffer(2, c2, n2, 44100), a>> :
     c1 \in 1..2, n1 \in 1..MaxLength, c2 \in 1..2, n2 \in 1..MaxLength,
     a \in {Undefined, -20}}

NoMix == [called |-> FALSE, buffer1 |-> createBuffer(1, 0, 0),
          buffer2 |-> createBuffer(1, 0, 0), attenuation |-> Undefined,
          result |-> createBuffer(1, 0, 0)]

\* a call of mixBuffers(buffer1, buffer2, { attenuation })
CallMixBuffers(buffer1, buffer2, attenuation) ==
  /\ mixLast' = [called |-> TRUE, buffer1 |-> buffer1, buffer2 |-> buffer2,
                 attenuation |-> attenuation,
                 result |-> mixBuffers(buffer1, buffer2, attenuation)]
  /\ UNCHANGED <<parseLast, concatLast, fadeLast>>
  /\ UNCHANGED <<cacheVars, pipeVars, encVars, keyVars, playVars, moreVars>>

\* one call in a behaviour: the method keeps no state between calls
NextMix ==
  /\ ~mixLast.called
  /\ \E in \in MixInputs : CallMixBuffers(in[1], in[2], in[3])

\* a sample as a fraction
Sample(num, den) == [num |-> num, den |-> den]
\* data[i] *= n / d
Scale(sample, n, d) == Sample(sample.num * n, sample.den * d)

\* variant: options.fadeIn ?? 3000
OrDefaultIfAbsent(value, default) == IF value = Undefined THEN default ELSE value

\* options.fadeIn || 3000: the default also replaces 0
OrDefault(value, default) == IF value = Undefined \/ value = 0 THEN default ELSE value

\* (fadeInMs / 1000) * sampleRate
FadeSamples(ms, sampleRate) == (ms * sampleRate) \div 1000

\* for (i = 0; i < Math.min(fadeInSamples, data.length); i++) data[i] *= i / fadeInSamples
FadeIn(data, fadeInSamples) ==
  [k \in 1..Len(data) |->
     IF k - 1 < Min(fadeInSamples, Len(data))
     THEN Scale(data[k], k - 1, fadeInSamples) ELSE data[k]]

\* for (i = fadeOutStart; i < data.length; i++) data[i] *= 1 - (i - fadeOutStart) / fadeOutSamples
FadeOut(data, fadeOutSamples) ==
  LET fadeOutStart == Max(0, Len(data) - fadeOutSamples)
  IN  [k \in 1..Len(data) |->
         IF k - 1 >= fadeOutStart /\ fadeOutSamples > 0
         THEN Scale(data[k], fadeOutSamples - (k - 1 - fadeOutStart), fadeOutSamples)
         ELSE data[k]]

\* applyFades(buffer, { fadeIn, fadeOut })
applyFades(buffer, fadeIn, fadeOut) ==
  LET fadeInSamples == FadeSamples(OrDefault(fadeIn, 3000), buffer.sampleRate)
      fadeOutSamples == FadeSamples(OrDefault(fadeOut, 6000), buffer.sampleRate)
  IN  [buffer EXCEPT !.channels =
         [c \in 1..buffer.numberOfChannels |->
            FadeOut(FadeIn(buffer.channels[c], fadeInSamples), fadeOutSamples)]]

\* a buffer of 1000 Hz whose samples tell their channel and position
FadeBuffer(numChannels, length) ==
  AudioBuffer(1000, [c \in 1..numChannels |->
                       [k \in 1..length |-> Sample(10 * c + k, 1)]])

\* fade lengths in ms: absent, 0, and one or two samples long
FadeOptions == {Undefined, 0, 1, 2}

NoFade == [called |-> FALSE, buffer |-> createBuffer(1, 0, 0), fadeIn |-> Undefined,
           fadeOut |-> Undefined, result |-> createBuffer(1, 0, 0)]

\* a call of applyFades(buffer, { fadeIn, fadeOut })
CallApplyFades(buffer, fadeIn, fadeOut) ==
  /\ fadeLast' = [called |-> TRUE, buffer |-> buffer, fadeIn |-> fadeIn,
                  fadeOut |-> fadeOut, result |-> applyFades(buffer, fadeIn, fadeOut)]
  /\ UNCHANGED <<parseLast, concatLast, mixLast>>
  /\ UNCHANGED <<cacheVars, pipeVars, encVars, keyVars, playVars, moreVars>>

\* one call in a behaviour: the method keeps no state between calls
NextFades ==
  /\ ~fadeLast.called
  /\ \E c \in 1..2, n \in 1..MaxLength, fadeIn \in FadeOptions, fadeOut \in FadeOptions :
       CallApplyFades(FadeBuffer(c, n), fadeIn, fadeOut)

MoreInit ==
  /\ enc2 = NoEnc2
  /\ play2 = "none"
  /\ gen2 = "none"

FnInit ==
  /\ parseLast = NoParse
  /\ concatLast = NoConcat
  /\ mixLast = NoMix
  /\ fadeLast = NoFade

Init == CacheInit /\ PipeInit /\ EncInit /\ KeyInit /\ PlayInit /\ FnInit /\ MoreInit

\* variant: the phrase loop does not look at the flag
CancelCheckNever(flag) == FALSE

\* if (this.generationCancelled) at the top of the phrase loop
CancelCheck(flag) == flag

\* variant: an error in an iteration other than the last is logged and the
\* loop goes on with the next phrase
CaughtSkipsPhrase(message, h, k, buffers) ==
  IF message # MsgCancelled /\ k >= 1 /\ k < Len(phrases)
  THEN /\ pc' = "cacheGet"
       /\ idx' = k + 1
       /\ audioBuffers' = buffers
       /\ speechBlob' = NoBlob
       /\ hist' = NewIteration([h EXCEPT !.failedAt = k], k + 1)
       /\ UNCHANGED <<isGenerating, outcome, errorShown, currentAudioBuffer>>
  ELSE /\ pc' = "idle"
       /\ idx' = k
       /\ audioBuffers' = buffers
       /\ isGenerating' = FALSE
       /\ outcome' = IF message = MsgCancelled THEN "cancelled" ELSE "error"
       /\ errorShown' = IF message # MsgCancelled THEN message ELSE errorShown
       /\ speechBlob' = NoBlob
       /\ hist' = IF message = MsgCancelled THEN h ELSE [h EXCEPT !.failedAt = k]
       /\ UNCHANGED currentAudioBuffer

\* variant: the catch block shows every error, the cancellation too
CaughtShowsCancellation(message, h, k, buffers) ==
  /\ pc' = "idle"
  /\ idx' = k
  /\ audioBuffers' = buffers
  /\ isGenerating' = FALSE
  /\ outcome' = IF message = MsgCancelled THEN "cancelled" ELSE "error"
  /\ errorShown' = message
  /\ speechBlob' = NoBlob
  /\ hist' = IF message = MsgCancelled THEN h ELSE [h EXCEPT !.failedAt = k]
  /\ UNCHANGED currentAudioBuffer

\* an error with this message is thrown in iteration k: the catch and
\* finally blocks of handleSubmit
Caught(message, h, k, buffers) ==
  /\ pc' = "idle"
  /\ idx' = k
  /\ audioBuffers' = buffers
  /\ isGenerating' = FALSE
  /\ outcome' = IF message = MsgCancelled THEN "cancelled" ELSE "error"
  /\ errorShown' = IF message # MsgCancelled THEN message ELSE errorShown
  /\ speechBlob' = NoBlob
  /\ hist' = IF message = MsgCancelled THEN h ELSE [h EXCEPT !.failedAt = k]
  /\ UNCHANGED currentAudioBuffer

\* variant: the pause is pushed before the speech
AppendPauseFirst(buffers, phrase, blob, k) ==
  IF phrase.duration > 0
  THEN Append(Append(buffers, createSilence(phrase.duration, k)), DecodedBuffer(blob, k))
  ELSE Append(buffers, DecodedBuffer(blob, k))

\* audioBuffers after phrase k: the decoded speech, then the pause when
\* phrase.duration > 0
AppendPhraseAudio(buffers, phrase, blob, k) ==
  LET withSpeech == Append(buffers, DecodedBuffer(blob, k))
  IN  IF phrase.duration > 0
      THEN Append(withSpeech, createSilence(phrase.duration, k))
      ELSE withSpeech

\* the loop from the top of iteration k (1-based) to its first await; after
\* the last iteration, the code from concatenateBuffers to the await of
\* saveCurrentProject
LoopTop(phr, k, buffers, cancelled, h) ==
  LET h2 == IF cancelled /\ k <= Len(phr) /\ h.cancelSeen = 0
            THEN [h EXCEPT !.cancelSeen = k] ELSE h
  IN
  /\ IF k > Len(phr)
     THEN IF buffers = << >>
          THEN Caught(MsgNoBuffers, h2, k, buffers)
          ELSE /\ idx' = k
               /\ audioBuffers' = buffers
               /\ currentAudioBuffer' = concatenateBuffers(buffers)
               /\ pc' = "save"
               /\ speechBlob' = NoBlob
               /\ hist' = [h2 EXCEPT !.produced = TRUE]
               /\ UNCHANGED <<isGenerating, outcome, errorShown>>
     ELSE IF CancelCheck(cancelled)
          THEN Caught(MsgCancelled, [h2 EXCEPT !.ops = << >>, !.read = "none",
                                               !.write = "none",
                                               !.wasStored = FALSE],
                      k, buffers)
          ELSE /\ idx' = k
               /\ audioBuffers' = buffers
               /\ pc' = "cacheGet"
               /\ speechBlob' = NoBlob
               /\ hist' = NewIteration(h2, k)
               /\ UNCHANGED <<isGenerating, outcome, errorShown, currentAudioBuffer>>

\* the Generate button, text typed in the editor: handleSubmit up to the
\* cache lookup of the first phrase
SubmitEditor(phr) ==
  /\ pc = "idle"
  /\ runs < MaxRuns
  /\ runs' = runs + 1
  /\ generationCancelled' = FALSE
  /\ isGenerating' = TRUE
  /\ phrases' = phr
  /\ idx' = 1
  /\ audioBuffers' = << >>
  /\ speechBlob' = NoBlob
  /\ pc' = "cacheGet"
  /\ outcome' = "running"
  /\ errorShown' = "none"
  /\ plan' = << >>
  /\ call' = NoCall
  /\ hist' = NewIteration(NoHist, 1)
  /\ UNCHANGED <<apiKey, currentAudioBuffer, cacheVars>>
  /\ UNCHANGED <<encVars, keyVars, otherVars>>

\* the Generate button, phrase file chosen: handleSubmit up to its await of
\* readTextFile
SubmitFile(phr) ==
  /\ pc = "idle"
  /\ runs < MaxRuns
  /\ runs' = runs + 1
  /\ generationCancelled' = FALSE
  /\ isGenerating' = TRUE
  /\ phrases' = phr
  /\ idx' = 0
  /\ audioBuffers' = << >>
  /\ speechBlob' = NoBlob
  /\ pc' = "readFile"
  /\ outcome' = "running"
  /\ errorShown' = "none"
  /\ plan' = << >>
  /\ call' = NoCall
  /\ hist' = NoHist
  /\ UNCHANGED <<apiKey, currentAudioBuffer, cacheVars>>
  /\ UNCHANGED <<encVars, keyVars, otherVars>>

\* readTextFile resolves: parse, select the engine, enter the loop
ReadFileResolve ==
  /\ pc = "readFile"
  /\ LoopTop(phrases, 1, << >>, generationCancelled, hist)
  /\ UNCHANGED <<apiKey, generationCancelled, phrases, runs, plan, call, cacheVars>>
  /\ UNCHANGED <<encVars, keyVars, otherVars>>

\* generateOrGetCachedSpeech after the lookup found nothing or failed:
\* ttsService.generatePhrase up to the adapter's fetch, or through
\* generateSilence to the await of cacheService.set
StartSynthesis(h) ==
  LET text == PhraseText(phrases[idx])
      entry == GenerateSpeechEntry(text, apiKey)
      h2 == Log(h, "synth", idx)
  IN  CASE entry = "throw" ->
             /\ Caught(MsgNoApiKey, h2, idx, audioBuffers)
             /\ call' = [NoCall EXCEPT !.text = text, !.status = "thrown",
                                       !.message = MsgNoApiKey]
             /\ plan' = << >>
        [] entry = "silence" ->
             /\ speechBlob' = SilenceFor(Undefined)
             /\ pc' = "cacheSet"
             /\ hist' = Log(h2, "set", idx)
             /\ call' = [NoCall EXCEPT !.text = text, !.status = "returned",
                                       !.result = SilenceFor(Undefined)]
             /\ plan' = << >>
             /\ UNCHANGED <<isGenerating, outcome, errorShown, currentAudioBuffer,
                            idx, audioBuffers>>
        [] entry = "fetch" ->
             /\ pc' = "fetch"
             /\ speechBlob' = NoBlob
             /\ hist' = Log(h2, "fetch", idx)
             /\ call' = [NoCall EXCEPT !.text = text, !.status = "pending",
                                       !.requests = 1]
             /\ plan' \in Plans
             /\ UNCHANGED <<isGenerating, outcome, errorShown, currentAudioBuffer,
                            idx, audioBuffers>>

\* variant: the rejection of cacheService.get is not caught
OnCacheReadFailureThrows == "throw"

\* what generateOrGetCachedSpeech does when cacheService.get rejects: the
\* catch block logs a warning and the code goes on as after a miss
OnCacheReadFailure == "miss"

\* variant: the cached blob is never used
IsHitNever(cached) == FALSE

\* if (cached) in generateOrGetCachedSpeech
IsHit(cached) == cached # NoBlob

\* the cache's answer for the phrase being processed
Lookup == CacheGet(cacheStore, PhraseText(phrases[idx]), StrOpenai, OpenAIOptions)

\* cacheService.get resolves
CacheGetSucceeds ==
  /\ pc = "cacheGet"
  /\ LET cached == Lookup
         h == [hist EXCEPT !.read = IF cached # NoBlob THEN "hit" ELSE "miss",
                           !.wasStored = (cached # NoBlob)]
     IN  IF IsHit(cached)
         THEN /\ speechBlob' = cached
              /\ pc' = "decode"
              /\ hist' = h
              /\ UNCHANGED <<isGenerating, outcome, errorShown, currentAudioBuffer,
                             plan, call, idx, audioBuffers>>
         ELSE StartSynthesis(h)
  /\ UNCHANGED <<apiKey, generationCancelled, phrases, runs, cacheVars>>
  /\ UNCHANGED <<encVars, keyVars, otherVars>>

\* cacheService.get rejects (the IndexedDB request fails)
CacheGetFails ==
  /\ pc = "cacheGet"
  /\ LET h == [hist EXCEPT !.read = "fail", !.wasStored = (Lookup # NoBlob)]
     IN  IF OnCacheReadFailure = "miss"
         THEN StartSynthesis(h)
         ELSE /\ Caught(MsgCacheRead, h, idx, audioBuffers)
              /\ UNCHANGED <<plan, call>>
  /\ UNCHANGED <<apiKey, generationCancelled, phrases, runs, cacheVars>>
  /\ UNCHANGED <<encVars, keyVars, otherVars>>

\* the adapter's fetch settles
FetchResolve ==
  /\ pc = "fetch"
  /\ LET r == Head(plan)
         step == GenerateSpeechOnResponse(r)
         got == [call EXCEPT !.received = Append(@, r)]
     IN  CASE step.do = "throw" ->
                /\ Caught(step.message, hist, idx, audioBuffers)
                /\ call' = [got EXCEPT !.status = "thrown", !.message = step.message,
                                       !.detail = step.detail]
                /\ plan' = << >>
           [] step.do = "return" ->
                /\ speechBlob' = step.blob
                /\ pc' = "cacheSet"
                /\ hist' = Log(hist, "set", idx)
                /\ call' = [got EXCEPT !.status = "returned", !.result = step.blob]
                /\ plan' = Tail(plan)
                /\ UNCHANGED <<isGenerating, outcome, errorShown, currentAudioBuffer,
                               idx, audioBuffers>>
  /\ UNCHANGED <<apiKey, generationCancelled, phrases, runs, cacheVars>>
  /\ UNCHANGED <<encVars, keyVars, otherVars>>

\* cacheService.set resolves: the blob is stored
CacheSetSucceeds ==
  /\ pc = "cacheSet"
  /\ cacheStore' = CacheSet(cacheStore, PhraseText(phrases[idx]), StrOpenai,
                            OpenAIOptions, speechBlob, now)
  /\ pc' = "decode"
  /\ hist' = [hist EXCEPT !.write = "stored"]
  /\ plan' = << >>
  /\ UNCHANGED <<apiKey, isGenerating, generationCancelled, currentAudioBuffer,
                 phrases, idx, speechBlob, audioBuffers, outcome, errorShown,
                 runs, call>>
  /\ UNCHANGED <<now, prunePc, pruneStats, lastGet, written, everSet, cacheOps, pruneLog,
               lastSet>>
  /\ UNCHANGED <<encVars, keyVars, otherVars>>

\* cacheService.set rejects: the catch block logs and the blob is returned
CacheSetFails ==
  /\ pc = "cacheSet"
  /\ pc' = "decode"
  /\ hist' = [hist EXCEPT !.write = "fail"]
  /\ plan' = << >>
  /\ UNCHANGED <<apiKey, isGenerating, generationCancelled, currentAudioBuffer,
                 phrases, idx, speechBlob, audioBuffers, outcome, errorShown,
                 runs, call, cacheVars>>
  /\ UNCHANGED <<encVars, keyVars, otherVars>>

\* speechBlob.arrayBuffer() and decodeAudioData settle; on success the rest
\* of the iteration and the next loop top
DecodeResolve ==
  /\ pc = "decode"
  /\ LET decoded == DecodeAudioData(speechBlob)
     IN  IF decoded # "ok"
         THEN Caught(decoded, hist, idx, audioBuffers)
         ELSE LoopTop(phrases, idx + 1,
                      AppendPhraseAudio(audioBuffers, phrases[idx], speechBlob, idx),
                      generationCancelled, hist)
  /\ call' = NoCall
  /\ UNCHANGED <<apiKey, generationCancelled, phrases, runs, plan, cacheVars>>
  /\ UNCHANGED <<encVars, keyVars, otherVars>>

\* saveCurrentProject settles: showOutput, then the finally block
SaveResolve ==
  /\ pc = "save"
  /\ pc' = "idle"
  /\ isGenerating' = FALSE
  /\ outcome' = "complete"
  /\ UNCHANGED <<apiKey, generationCancelled, currentAudioBuffer, phrases, idx,
                 speechBlob, audioBuffers, errorShown, runs, plan, call, hist,
                 cacheVars>>
  /\ UNCHANGED <<encVars, keyVars, otherVars>>

\* the Stop button
handleStopGeneration ==
  /\ isGenerating
  /\ generationCancelled' = TRUE
  /\ UNCHANGED <<apiKey, isGenerating, currentAudioBuffer, pc, phrases, idx,
                 speechBlob, audioBuffers, outcome, errorShown, runs, plan, call,
                 hist, cacheVars>>
  /\ UNCHANGED <<encVars, keyVars, otherVars>>

\* a validated OpenAI key is saved
handleSaveApiKey ==
  /\ ~apiKey
  /\ apiKey' = TRUE
  /\ UNCHANGED <<isGenerating, generationCancelled, currentAudioBuffer, pc,
                 phrases, idx, speechBlob, audioBuffers, outcome, errorShown,
                 runs, plan, call, hist, cacheVars>>
  /\ UNCHANGED <<encVars, keyVars, otherVars>>

\* the Clear Cache button, confirmed
handleClearCache ==
  /\ cacheStore # << >>
  /\ cacheStore' = CacheClear(cacheStore)
  /\ UNCHANGED <<now, prunePc, pruneStats, lastGet, written, everSet, cacheOps, pruneLog,
               lastSet>>
  /\ UNCHANGED <<pipeVars, encVars, keyVars, otherVars>>

Next ==
  \/ \E phr \in PhraseLists : SubmitEditor(phr)
  \/ \E phr \in PhraseLists : SubmitFile(phr)
  \/ ReadFileResolve
  \/ CacheGetSucceeds
  \/ CacheGetFails
  \/ FetchResolve
  \/ CacheSetSucceeds
  \/ CacheSetFails
  \/ DecodeResolve
  \/ SaveResolve
  \/ handleStopGeneration
  \/ handleSaveApiKey
  \/ handleClearCache

Spec == Init /\ [][Next]_vars

(***************************************************************************)
(* Two handleSubmit invocations: the second is invoked while the first is  *)
(* suspended at an await (the handler has no guard of its own against      *)
(* that).  isGenerating, generationCancelled and currentAudioBuffer are    *)
(* fields of the controller, shared by both.                               *)
(***************************************************************************)
\* the second handleSubmit up to its first await
SecondSubmit ==
  /\ pc # "idle"
  /\ gen2 = "none"
  /\ gen2' = "running"
  /\ generationCancelled' = FALSE
  /\ isGenerating' = TRUE
  /\ UNCHANGED <<apiKey, currentAudioBuffer, pc, phrases, idx, speechBlob,
                 audioBuffers, outcome, errorShown, runs, plan, call, hist>>
  /\ UNCHANGED <<cacheVars, encVars, keyVars, playVars, fnVars, enc2, play2>>

\* the second handleSubmit ends: with Program Audio for its one phrase, with
\* an error, or, if generationCancelled is set at its loop top, cancelled;
\* its finally block clears isGenerating
SecondSubmitEnds(result) ==
  /\ gen2 = "running"
  /\ result = "cancelled" => CancelCheck(generationCancelled)
  /\ result = "complete" => ~CancelCheck(generationCancelled)
  /\ gen2' = result
  /\ isGenerating' = FALSE
  /\ currentAudioBuffer' =
       IF result = "complete"
       THEN concatenateBuffers(AppendPhraseAudio(<< >>, Phrase(StrAa, 0), SpeechBlob, 1))
       ELSE currentAudioBuffer
  /\ UNCHANGED <<apiKey, generationCancelled, pc, phrases, idx, speechBlob,
                 audioBuffers, outcome, errorShown, runs, plan, call, hist>>
  /\ UNCHANGED <<cacheVars, encVars, keyVars, playVars, fnVars, enc2, play2>>

NextResubmit ==
  \/ \E phr \in PhraseLists : SubmitEditor(phr)
  \/ CacheGetSucceeds
  \/ FetchResolve
  \/ CacheSetSucceeds
  \/ DecodeResolve
  \/ SaveResolve
  \/ handleStopGeneration
  \/ handleSaveApiKey
  \/ SecondSubmit
  \/ \E result \in {"complete", "error", "cancelled"} : SecondSubmitEnds(result)

SpecResubmit == Init /\ [][NextResubmit]_vars

SpecCache == Init /\ [][NextCache]_vars

(***************************************************************************)
(* AppController.handleDownload, and a generation followed by an export.   *)
(***************************************************************************)
MsgNoAudio == "No audio available to download"

\* buffer.length of the Program Audio handed to the encoder
ExportSamples == {0, MaxFrames * blockSize}

\* handleDownload ends without calling the encoder; shown is what it showed
DownloadEnds(shown) ==
  /\ encodes' = encodes + 1
  /\ encHist' = [NoEncHist EXCEPT !.shown = shown]
  /\ encResult' = "none"
  /\ encFlagSeen' = FALSE
  /\ UNCHANGED <<encodingCancelled, encPc, encSamples, encI, mp3Data, encProgress,
                 encBlob>>
  /\ UNCHANGED <<cacheVars, pipeVars, keyVars, otherVars>>

\* the Download button: handleDownload up to its return or to the first
\* await inside audioBufferToMP3
handleDownload(format, lameAvailable, samples) ==
  /\ encPc = "idle"
  /\ encodes < MaxEncodes
  /\ IF currentAudioBuffer = NoAudio THEN DownloadEnds("alert")
     ELSE IF format = "mp3" /\ ~lameAvailable THEN DownloadEnds("alert")
     ELSE IF format = "mp3" THEN StartEncode(samples, TRUE)
     ELSE DownloadEnds("saved")

\* the phrase lists generated before an export
ExportPhraseLists == {<<Phrase(StrAa, 1)>>, <<Phrase(StrAa, 1), Phrase(StrStar, 0)>>}

\* a generation, then an export of its Program Audio; the two handlers
\* share no state and are run one after the other
NextExport ==
  \/ encPc = "idle" /\ \E phr \in ExportPhraseLists : SubmitEditor(phr)
  \/ CacheGetSucceeds
  \/ FetchResolve
  \/ CacheSetSucceeds
  \/ DecodeResolve
  \/ SaveResolve
  \/ handleStopGeneration
  \/ handleSaveApiKey
  \/ pc = "idle" /\ \E format \in {"mp3", "wav"}, lameAvailable \in BOOLEAN,
                       samples \in ExportSamples :
                     handleDownload(format, lameAvailable, samples)
  \/ pc = "idle" /\ EncodeFrame
  \/ pc = "idle" /\ EncodeResume
  \/ pc = "idle" /\ EncodeFlush
  \/ pc = "idle" /\ cancelEncoding

SpecExport == Init /\ [][NextExport]_vars

SpecPlay == Init /\ [][NextPlay]_vars

\* playback with a second handlePlay after handleStop
NextReplay ==
  \/ NextPlay
  \/ handlePlayAgain
  \/ SecondPlayClearsQueue
  \/ SecondPlayEnds

SpecReplay == Init /\ [][NextReplay]_vars

SpecParse == Init /\ [][NextParse]_vars

SpecConcat == Init /\ [][NextConcat]_vars

SpecMix == Init /\ [][NextMix]_vars

SpecFades == Init /\ [][NextFades]_vars

(***************************************************************************)
(* OpenAITTSAdapter.generateSpeech and GoogleCloudTTSAdapter.generateSpeech *)
(* called directly (as the unit tests call them), one call at a time;      *)
(* apiKey stands for the apiKey field of the adapter called.               *)
(***************************************************************************)
Adapters == {"openai", "google"}
AdapterTexts == {StrEmpty, StrStar, StrAa}
Durations == {Undefined} \cup 0..MaxDuration
AdapterPlans(adapter) ==
  {<<r>> \o q : r \in (IF adapter = "openai" THEN Responses
                        ELSE {RespOk(SpeechBlob), RespNetworkError}) \cup HttpErrors,
                q \in SeqsOfLen(LaterResponses, MaxScript - 1)}

\* generateSpeech(text, {duration}) up to its return, its throw or its fetch
GenerateSpeechCall(adapter, text, duration) ==
  /\ pc = "idle"
  /\ call.status # "pending"
  /\ LET entry == GenerateSpeechEntry(text, apiKey)
         c == [NoCall EXCEPT !.adapter = adapter, !.text = text, !.duration = duration]
     IN  CASE entry = "throw" ->
                /\ call' = [c EXCEPT !.status = "thrown",
                                     !.message = IF adapter = "openai" THEN MsgNoApiKey
                                                 ELSE MsgNoGoogleApiKey]
                /\ plan' = << >>
           [] entry = "silence" ->
                /\ call' = [c EXCEPT !.status = "returned",
                                     !.result = SilenceFor(duration)]
                /\ plan' = << >>
           [] entry = "fetch" ->
                /\ call' = [c EXCEPT !.status = "pending", !.requests = 1]
                /\ plan' \in AdapterPlans(adapter)
  /\ UNCHANGED <<apiKey, isGenerating, generationCancelled, currentAudioBuffer, pc,
                 phrases, idx, speechBlob, audioBuffers, outcome, errorShown, runs,
                 hist>>
  /\ UNCHANGED <<cacheVars, encVars, keyVars, otherVars>>

\* the fetch of the call in progress settles
GenerateSpeechSettles ==
  /\ pc = "idle"
  /\ call.status = "pending"
  /\ LET r == Head(plan)
         step == IF call.adapter = "openai" THEN GenerateSpeechOnResponse(r)
                 ELSE GoogleGenerateSpeechOnResponse(r)
         got == [call EXCEPT !.received = Append(@, r)]
     IN  CASE step.do = "throw" ->
                /\ call' = [got EXCEPT !.status = "thrown", !.message = step.message,
                                       !.detail = step.detail]
                /\ plan' = << >>
           [] step.do = "return" ->
                /\ call' = [got EXCEPT !.status = "returned", !.result = step.blob]
                /\ plan' = << >>
  /\ UNCHANGED <<apiKey, isGenerating, generationCancelled, currentAudioBuffer, pc,
                 phrases, idx, speechBlob, audioBuffers, outcome, errorShown, runs,
                 hist>>
  /\ UNCHANGED <<cacheVars, encVars, keyVars, otherVars>>

NextAdapter ==
  \/ handleSaveApiKey
  \/ \E adapter \in Adapters, text \in AdapterTexts, duration \in Durations :
        GenerateSpeechCall(adapter, text, duration)
  \/ GenerateSpeechSettles

SpecAdapter == Init /\ [][NextAdapter]_vars

\* initializeCache's pruneCache running beside the sets of a generation
PruneTriples ==
  {<<StrAa, StrOpenai, << >> >>, <<StrAa, StrGtts, << >> >>, <<StrAa, StrOpenai, VoiceNova>>}

NextPrune ==
  \/ Tick
  \/ \E t \in PruneTriples, blob \in ApiBlobs : ApiSet(t[1], t[2], t[3], blob)
  \/ ApiPruneStats
  \/ ApiPruneDelete

SpecPrune == Init /\ [][NextPrune]_vars

\* a recording of 40 MB: with BigBlob it fills the cache to exactly its limit
LargeBlob == Blob(40 * 1024 * 1024, "large")
LimitBlobs == {LargeBlob, BigBlob}

\* pruneCache on a cache filled up to, and beyond, its limit
NextPruneLimit ==
  \/ Tick
  \/ \E t \in PruneTriples, blob \in LimitBlobs : ApiSet(t[1], t[2], t[3], blob)
  \/ ApiPruneStats
  \/ ApiPruneDelete

SpecPruneLimit == Init /\ [][NextPruneLimit]_vars

\* the cache API called with an empty text, for every engine and options,
\* beside calls that fill and empty the store
EmptyTextTriples ==
  {<<StrEmpty, e, o>> : e \in {StrOpenai, StrGtts}, o \in {<< >>, VoiceNova}}

EmptyTextCalls ==
  EmptyTextTriples \cup {<<StrAa, StrOpenai, << >> >>, <<StrAa, StrGtts, << >> >>}

NextEmptyText ==
  \/ Tick
  \/ \E t \in EmptyTextCalls, blob \in ApiBlobs : ApiSet(t[1], t[2], t[3], blob)
  \/ \E t \in EmptyTextCalls : ApiGet(t[1], t[2], t[3])
  \/ ApiClear

SpecEmptyText == Init /\ [][NextEmptyText]_vars

SpecMP3 == Init /\ [][NextMP3]_vars

SpecOverlap == Init /\ [][NextOverlap]_vars

\* cacheService.generateKey(text, engine, options)
CallGenerateKey(text, engine, options) ==
  /\ keyPrev' = keyLast
  /\ keyLast' = [text |-> text, engine |-> engine, options |-> options,
                 key |-> generateKey(text, engine, options), called |-> TRUE]
  /\ UNCHANGED <<cacheVars, pipeVars, encVars, otherVars>>

NextKey == \E t \in KeyTriples : CallGenerateKey(t[1], t[2], t[3])

SpecKey == Init /\ [][NextKey]_vars

(***************************************************************************)
(* Properties of the generation pipeline (Spec).                        *)
(***************************************************************************)
Ops == hist.ops
Has(op) == \E j \in 1..Len(Ops) : Ops[j][1] = op
Count(op) == Cardinality({j \in 1..Len(Ops) : Ops[j][1] = op})
IsPrefix(s, t) == Len(s) <= Len(t) /\ s = SubSeq(t, 1, Len(s))

\* the phrases whose iteration has run to its end
Done ==
  IF hist.produced THEN Len(phrases)
  ELSE IF idx >= 1 THEN idx - 1 ELSE 0

\* kind and phrase of each buffer of a list, and the length of each pause
Shape(buffers) ==
  [j \in 1..Len(buffers) |->
     <<buffers[j].kind, buffers[j].phrase,
       IF buffers[j].kind = "silence" THEN buffers[j].seconds ELSE 0>>]

\* the shape of the buffers of the first n phrases in list order, each
\* phrase's speech followed by its pause
RECURSIVE ExpectedShape(_, _)
ExpectedShape(phr, n) ==
  IF n = 0 THEN << >>
  ELSE ExpectedShape(phr, n - 1) \o << <<"speech", n, 0>> >> \o
       (IF phr[n].duration > 0
        THEN << <<"silence", n, phr[n].duration>> >> ELSE << >>)

\* C1: in every run over p1..pn processing is strictly in list order: the
\* audio of pi followed by pi's pause is appended before any cache or
\* adapter operation for pi+1 begins, and the appended buffers are never
\* reordered. Whenever an operation of iteration k has begun, audioBuffers
\* holds exactly the audio and pauses of p1..p(k-1) in list order, and the
\* Program Audio is the concatenation of the complete list.
C1_PhrasesInListOrder ==
  /\ \A j \in 1..Len(Ops) : Ops[j][2] = idx \/ (hist.produced /\ Ops[j][2] = Len(phrases))
  /\ Shape(audioBuffers) = ExpectedShape(phrases, Done)
  /\ hist.produced =>
       /\ currentAudioBuffer = concatenateBuffers(audioBuffers)
       /\ idx = Len(phrases) + 1

C1_Witness ==
  /\ outcome = "complete"
  /\ Len(phrases) = 2
  /\ phrases[1].duration > 0
  /\ Ops[Len(Ops)] = <<"set", 2>>
  /\ Len(currentAudioBuffer.parts) >= 3

\* C2: if generationCancelled is set when a phrase iteration starts, that
\* iteration and all later ones perform no cache lookup and no synthesis
\* call, and the generation ends cancelled (no error shown) without
\* producing Program Audio.
C2_CancelledAtLoopTop ==
  hist.cancelSeen > 0 =>
    /\ pc = "idle"
    /\ ~isGenerating
    /\ outcome = "cancelled"
    /\ errorShown = "none"
    /\ ~hist.produced
    /\ idx = hist.cancelSeen
    /\ Ops = << >>

C2_Witness ==
  /\ hist.cancelSeen = 2
  /\ outcome = "cancelled"
  /\ Len(audioBuffers) = 2
  /\ Len(phrases) = 2

\* C4: after a 200 response with a zero-byte body the adapter re-issues the
\* request at most 3 more times (at most 4 requests per call) and fails if
\* every response is empty: it never returns empty audio.
C4_EmptyResponseRetried ==
  /\ call.requests <= 4
  /\ (call.status = "returned" /\ call.requests > 0) => call.result.size > 0

\* C5: a first response with a zero-length body and a second, non-empty one:
\* the call returns the non-empty bytes and has issued exactly 2 requests.
C5_RetryThenSuccess ==
  LET second == IF Len(call.received) >= 2 THEN call.received[2]
                ELSE IF plan # << >> THEN Head(plan) ELSE RespNetworkError
  IN  (/\ call.status \in {"returned", "thrown"}
       /\ call.received # << >>
       /\ call.received[1] = RespOk(EmptyBlob)
       /\ second = RespOk(SpeechBlob))
        => (/\ call.status = "returned"
            /\ call.result = SpeechBlob
            /\ call.requests = 2)

\* C6: a failure of the speech cache never aborts generation: after a failed
\* read the phrase is synthesized through the adapter as after a miss, and
\* after a failed write the synthesized audio is still decoded and appended
\* and generation continues with the next phrase.
C6_CacheFailuresTolerated ==
  /\ errorShown # MsgCacheRead
  /\ hist.read = "fail" => Has("synth")
  /\ hist.write = "fail" =>
       \/ (pc = "decode" /\ speechBlob = call.result /\ speechBlob # NoBlob)
       \/ (hist.failedAt = idx /\ errorShown \in {MsgEmptyBuffer, MsgDecode})
       \/ (hist.produced /\ Done = Len(phrases))
  /\ outcome = "error" =>
       errorShown \in {MsgNoApiKey, MsgApiError, MsgNetwork, MsgEmptyBuffer, MsgDecode}

C6_Witness ==
  /\ outcome = "complete"
  /\ Len(phrases) = 2
  /\ hist.read = "fail"
  /\ hist.write = "fail"
  /\ Len(currentAudioBuffer.parts) >= 2

\* C7: generation halts at the first unrecoverable error: when synthesis or
\* decoding of phrase k fails, no cache or adapter operation is performed
\* for a later phrase and no Program Audio is produced.
C7_HaltsAtFirstError ==
  hist.failedAt > 0 =>
    /\ pc = "idle"
    /\ ~isGenerating
    /\ outcome = "error"
    /\ errorShown # "none"
    /\ ~hist.produced
    /\ idx = hist.failedAt
    /\ \A j \in 1..Len(Ops) : Ops[j][2] = hist.failedAt

C7_Witness ==
  /\ hist.failedAt = 1
  /\ Len(phrases) = 2
  /\ outcome = "error"
  /\ errorShown = MsgDecode

\* the operations of an iteration in the order the code can issue them
IterationOps(k) ==
  { << <<"get", k>>, <<"synth", k>>, <<"fetch", k>>, <<"set", k>> >>,
    << <<"get", k>>, <<"synth", k>>, <<"set", k>> >> }

\* the lookup comes first, a hit makes no adapter call and no write, a miss
\* makes exactly one adapter call followed by one write of what it returned
LookupThenHitOrMiss ==
  /\ Ops # << >> =>
       /\ Ops[1][1] = "get"
       /\ \E full \in IterationOps(Ops[1][2]) : IsPrefix(Ops, full)
  /\ hist.read # "none" => Has("get")
  /\ hist.read = "hit" => Len(Ops) = 1
  /\ hist.read = "miss" =>
       /\ Count("synth") = 1
       /\ Count("set") <= 1
       /\ (pc \in {"decode", "save"} \/ outcome = "complete") => Count("set") = 1
       /\ pc = "cacheSet" => speechBlob = call.result

\* C8 (as stated): the lookup first, then hit or miss as above, so a phrase
\* already stored for the same engine and options is never re-requested.
C8_StoredNeverReRequested ==
  /\ LookupThenHitOrMiss
  /\ hist.wasStored => ~Has("fetch")

\* C8 (amended): the lookup first, then hit or miss as above, so a phrase
\* already stored for the same engine and options is never re-requested as
\* long as the cache read itself succeeds.
C8_StoredNeverReRequestedIfReadable ==
  /\ LookupThenHitOrMiss
  /\ (hist.wasStored /\ hist.read # "fail") => ~Has("synth")

C8_Witness ==
  /\ runs = 1
  /\ outcome = "complete"
  /\ Len(phrases) = 2
  /\ PhraseText(phrases[1]) = StrAa
  /\ hist.read = "hit"
  /\ cacheStore # << >>

(***************************************************************************)
(* Properties of the MP3 encoder (SpecMP3).                             *)
(***************************************************************************)
\* C3: the cancellation flag is checked at the start of every frame
\* iteration and once more before the flush; if it is set at one of those
\* points the encode rejects with the encoding-cancelled error and returns
\* no bytes.
C3_CancelledEncodeReturnsNothing ==
  encFlagSeen =>
    /\ encPc = "idle"
    /\ encResult = MsgEncodingCancelled
    /\ encBlob = NoMp3

C3_Witness ==
  /\ encFlagSeen
  /\ encResult = MsgEncodingCancelled
  /\ mp3Data > 0
  /\ encI < encSamples

(***************************************************************************)
(* Properties of generateKey (SpecKey).                                    *)
(***************************************************************************)
\* the same property name/value pairs, in whatever order
SameProperties(o1, o2) ==
  {o1[i] : i \in 1..Len(o1)} = {o2[i] : i \in 1..Len(o2)}

\* C11: generateKey is deterministic and independent of option insertion
\* order: two calls with the same text, the same engine and the same option
\* name/value pairs return the same key, whatever the insertion order.
C11_KeyIndependentOfOptionOrder ==
  (/\ keyLast.called /\ keyPrev.called
   /\ keyLast.text = keyPrev.text
   /\ keyLast.engine = keyPrev.engine
   /\ SameProperties(keyLast.options, keyPrev.options))
    => keyLast.key = keyPrev.key

C11_Witness ==
  /\ keyLast.called /\ keyPrev.called
  /\ keyLast.text = keyPrev.text
  /\ keyLast.engine = keyPrev.engine
  /\ Len(keyLast.options) = 3
  /\ SameProperties(keyLast.options, keyPrev.options)
  /\ keyLast.options # keyPrev.options
  /\ keyLast.key = keyPrev.key

(***************************************************************************)
(* Properties of the cache API (SpecCache).                             *)
(***************************************************************************)
LastGetTriple == Triple(lastGet.text, lastGet.engine, lastGet.options)

\* C9: after set(text, engine, options, bytes) with non-empty text, a get
\* of the same triple returns exactly those bytes, as long as no clear, no
\* prune and no later set of that triple happened in between; sets of other
\* triples in between do not change the result.
C9_SetThenGetReturnsBytes ==
  (lastGet.called /\ LastGetTriple \in DOMAIN written)
    => lastGet.result = written[LastGetTriple]

\* C10: distinct triples never share a cache entry: a get of a triple that
\* has not itself been set returns null.
C10_UnsetTripleGetsNull ==
  (lastGet.called /\ LastGetTriple \notin everSet) => lastGet.result = NoBlob

\* C12: the total size of the speech cache is bounded by the configured
\* maximum: whenever set operations push the total above it, pruning runs
\* automatically, so that no set leaves the store above the maximum.
C12_TotalSizeBounded ==
  prunePc = "idle" => TotalSize(cacheStore) <= MaxCacheBytes

\* C13: when the total cached size exceeded the configured maximum at the
\* call of pruneCache, the total cached size is at most 0.8 times the
\* maximum when that call completes.
C13_PruneReachesTarget ==
  (pruneLog.done /\ pruneLog.totalAtCall > MaxCacheBytes)
     => pruneLog.totalAfter <= PruneTargetBytes

\* C14: pruneCache deletes oldest first: every entry it deleted has a
\* timestamp no later than that of every entry it kept.
C14_PruneDeletesOldestFirst ==
  pruneLog.done =>
     \A d \in pruneLog.deleted : \A r \in pruneLog.retained : d <= r

\* a call that deleted an entry and kept a strictly newer one
C14_Witness ==
  /\ pruneLog.done
  /\ \E d \in pruneLog.deleted : \E r \in pruneLog.retained : d < r

\* the step is a clear, or the delete transaction of pruneCache
ClearOrPruneStep ==
  \/ cacheStore' = << >> /\ cacheOps' = cacheOps + 1 /\ prunePc' = prunePc
  \/ prunePc = "stats" /\ prunePc' = "idle"

\* the entry e is still stored, written by a set of the triple that wrote e
ReSetOfSameTriple(e) ==
  /\ e.key \in DOMAIN cacheStore'
  /\ cacheStore'[e.key].text = e.text
  /\ cacheStore'[e.key].engine = e.engine
  /\ cacheStore'[e.key].options = e.options

\* C15: no step alters or removes a stored entry except a set of the
\* entry's own (text, engine, options) triple, a clear, or a prune: get,
\* getStats and set calls for other triples leave every stored entry as it is.
C15_StoredEntriesFramed ==
  [][\A k \in DOMAIN cacheStore :
        \/ k \in DOMAIN cacheStore' /\ cacheStore'[k] = cacheStore[k]
        \/ ReSetOfSameTriple(cacheStore[k])
        \/ ClearOrPruneStep]_vars

(***************************************************************************)
(* Properties of the cache API called with an empty text (SpecEmptyText).  *)
(***************************************************************************)
\* C16: for an empty text, whatever the engine, the options and the stored
\* entries are, set leaves the object store as it is, get returns null, and
\* no entry with an empty text is ever stored.
C16_EmptyTextNeverCached ==
  /\ (lastSet.called /\ lastSet.text = StrEmpty) => ~lastSet.changed
  /\ (lastGet.called /\ lastGet.text = StrEmpty) => lastGet.result = NoBlob
  /\ \A k \in DOMAIN cacheStore : cacheStore[k].text # StrEmpty

\* a set and then a get with an empty text on a store that holds an entry
C16_Witness ==
  /\ lastSet.called /\ lastSet.text = StrEmpty
  /\ lastGet.called /\ lastGet.text = StrEmpty
  /\ lastGet.engine = StrGtts /\ lastGet.options = VoiceNova
  /\ cacheStore # << >>

(***************************************************************************)
(* Properties of the silence marker and of the adapter call (Spec).        *)
(***************************************************************************)
\* C17: the pipeline issues no adapter generateSpeech call for a phrase
\* whose text is the silence marker.
C17_NoSynthesisForSilenceMarker ==
  \A j \in 1..Len(Ops) :
     (Ops[j][1] = "synth" /\ Ops[j][2] \in 1..Len(phrases))
        => PhraseText(phrases[Ops[j][2]]) # StrStar

\* C18: an adapter call whose text is empty or the silence marker, given
\* options.duration, returns silent audio of options.duration seconds and
\* issues no network request.
C18_SilenceOfRequestedDuration ==
  (/\ call.status \in {"returned", "thrown"}
   /\ call.text \in {StrEmpty, StrStar}
   /\ call.duration # Undefined)
     => /\ call.status = "returned"
        /\ call.result = generateSilence(call.duration)
        /\ call.requests = 0

\* buffer.length summed over the buffers, in seconds
RECURSIVE TotalSeconds(_)
TotalSeconds(buffers) ==
  IF buffers = << >> THEN 0
  ELSE buffers[1].seconds + TotalSeconds(Tail(buffers))

\* speech length plus pause for a spoken phrase, the pause only for a
\* silence-marker phrase, summed over the first n phrases
RECURSIVE ExpectedSeconds(_, _)
ExpectedSeconds(phr, n) ==
  IF n = 0 THEN 0
  ELSE ExpectedSeconds(phr, n - 1) + phr[n].duration +
       (IF PhraseText(phr[n]) = StrStar THEN 0 ELSE SpeechSeconds)

\* C19: the length of the Program Audio is the sum over the spoken phrases
\* of speech length plus pause, plus the pause alone of every silence-marker
\* phrase.
C19_ProgramAudioLength ==
  hist.produced =>
     TotalSeconds(currentAudioBuffer.parts) = ExpectedSeconds(phrases, Len(phrases))

(***************************************************************************)
(* Properties of the adapter call on a response that is not ok             *)
(* (SpecAdapter).                                                          *)
(***************************************************************************)
\* C20: when the response to the adapter's request is not 2xx, the call
\* fails after exactly one request, without a retry, and the error thrown
\* carries the provider's error message: error.message of a JSON body, else
\* the text of the body, else the status text.
C20_HttpErrorFailsAfterOneRequest ==
  (Len(call.received) >= 1 /\ call.received[1].kind = "http")
     => LET r == call.received[1]
        IN  /\ call.status = "thrown"
            /\ call.requests = 1
            /\ Len(call.received) = 1
            /\ call.message = IF call.adapter = "openai" THEN MsgApiError
                              ELSE MsgGoogleApiError
            /\ call.detail \in {r.body.errorMessage, r.body.text, r.statusText} \ {""}
            /\ r.body.errorMessage # "" => call.detail = r.body.errorMessage
            /\ (~r.body.json /\ r.body.text # "") => call.detail = r.body.text

(***************************************************************************)
(* Properties of a generation followed by an export (SpecExport).          *)
(***************************************************************************)
\* C21: user cancellation is distinguishable from failure. A generation or
\* an MP3 export that ended because the user cancelled shows no error
\* alert, and a generation or export that ended for any other reason is
\* never handled as a cancellation: it ends in the error alert.
C21_CancellationIsNotAnError ==
  /\ outcome = "cancelled" => (errorShown = "none" /\ hist.cancelSeen # 0)
  /\ outcome = "error" => (errorShown \notin {"none", MsgCancelled} /\ hist.failedAt # 0)
  /\ encResult = MsgEncodingCancelled => encHist.shown = "notice"
  /\ encHist.shown = "notice" => (encFlagSeen /\ encResult = MsgEncodingCancelled)
  /\ encResult \notin {"none", "pending", "resolved", MsgEncodingCancelled}
        => encHist.shown = "alert"

\* a generation cancelled by Stop, then an export cancelled after frames
C21_Witness ==
  /\ outcome = "cancelled"
  /\ runs = 2
  /\ encResult = MsgEncodingCancelled
  /\ encHist.frames > 0

\* C22: when stopSpeech is called while a playPhrasesWebAPI call runs, the call
\* ends with 'Playback stopped by user', and after the stop no utterance is
\* handed to speak() and no sleep is completed.
C22_StopEndsPlayback ==
  /\ (playHist.stopped /\ playPc = "idle") => playResult = MsgPlaybackStopped
  /\ playHist.stopped => (playHist.spoken = 0 /\ playHist.slept = 0)

\* the second half of C22 alone
C22_NothingPlayedAfterStop ==
  playHist.stopped => (playHist.spoken = 0 /\ playHist.slept = 0)

C24_YieldEveryTenFrames == encHist.sinceYield <= YieldEvery

C24_Witness ==
  /\ encPc = "yield"
  /\ encHist.sinceYield = YieldEvery
  /\ encHist.frames = 11

\* C25: a call made while the encoder is not loaded fails with the
\* encoder-unavailable error before any work: no encoder is created, no
\* sample converted, no frame encoded and no progress reported.
C25_NoEncoderNoWork ==
  ~encHist.lame =>
    /\ encPc = "idle"
    /\ encResult = MsgNoEncoder
    /\ encBlob = NoMp3
    /\ ~encHist.created
    /\ ~encHist.converted
    /\ encHist.frames = 0
    /\ encHist.reports = 0

C25_Witness ==
  /\ ~encHist.lame
  /\ encResult = MsgNoEncoder
  /\ encodes = 2
  /\ encProgress = 100

(***************************************************************************)
(* Properties of pruneCache at the limit (SpecPruneLimit).                 *)
(***************************************************************************)
\* C26: a pruneCache call made while the total cached size does not exceed
\* the configured maximum deletes no entry.
C26_NoPruneWithinLimit ==
  (pruneLog.done /\ pruneLog.totalAtCall <= MaxCacheBytes) => pruneLog.deleted = {}

\* the same for a total strictly below the maximum
C26_NoPruneBelowLimit ==
  (pruneLog.done /\ pruneLog.totalAtCall < MaxCacheBytes) => pruneLog.deleted = {}

(***************************************************************************)
(* Properties of parseTextFile (SpecParse).                                *)
(***************************************************************************)
\* the lines of a content that are not blank, trimmed, in their order
NonBlankLines(content) ==
  LET lines == Split(Trim(content))
  IN  SelectSeq([i \in 1..Len(lines) |-> Trim(lines[i])], LAMBDA l : l # << >>)

HasSemicolon(line) == \E i \in 1..Len(line) : line[i] = Semicolon
\* the line has no semicolon at all, or ends with its semicolon
OmitsDuration(line) == ~HasSemicolon(line) \/ line[Len(line)] = Semicolon
\* the line without its trailing semicolon
LineText(line) ==
  IF line[Len(line)] = Semicolon THEN Trim(SubSeq(line, 1, Len(line) - 1)) ELSE line
\* no line terminator inside, and no semicolon before the trailing one
PlainLine(line) ==
  /\ \A i \in 1..Len(line) : line[i] \notin LineTerminators
  /\ \A i \in 1..(Len(line) - 1) : line[i] # Semicolon

\* C27: a non-blank line with a trailing semicolon and nothing after it, or
\* with no semicolon at all, parses to a phrase whose text is the line's text
\* and whose duration is 0.
C27_OmittedDurationDefaultsToZero ==
  LET lines == NonBlankLines(parseLast.content)
  IN  (/\ parseLast.called
       /\ lines # << >>
       /\ \A i \in 1..Len(lines) : OmitsDuration(lines[i]))
        => /\ parseLast.result.status = "returned"
           /\ parseLast.result.phrases =
                 [i \in 1..Len(lines) |-> Phrase(LineText(lines[i]), Zero)]

\* the same for lines without a line terminator inside and without a second
\* semicolon
C27_PlainLinesDefaultToZero ==
  LET lines == NonBlankLines(parseLast.content)
  IN  (/\ parseLast.called
       /\ lines # << >>
       /\ \A i \in 1..Len(lines) : OmitsDuration(lines[i]) /\ PlainLine(lines[i]))
        => /\ parseLast.result.status = "returned"
           /\ parseLast.result.phrases =
                 [i \in 1..Len(lines) |-> Phrase(LineText(lines[i]), Zero)]

HasTerminator(line) == \E k \in 1..Len(line) : line[k] \in LineTerminators

C29_OnePhrasePerNonBlankLine ==
  LET lines == NonBlankLines(parseLast.content)
      res == parseLast.result
  IN  /\ res.status = "returned" =>
            /\ Len(res.phrases) = Len(lines)
            /\ \A i \in 1..Len(lines) : res.phrases[i] = LinePhrase(LineMatch(lines[i]))
      /\ (parseLast.called /\ parseLast.content # << >> /\ lines = << >>)
            => res.error = MsgNoValidPhrases

\* two different phrases from three lines, the middle one blank
C29_Witness ==
  /\ parseLast.result.status = "returned"
  /\ Len(parseLast.result.phrases) = 2
  /\ parseLast.result.phrases[1] # parseLast.result.phrases[2]
  /\ Len(Split(Trim(parseLast.content))) = 3

(***************************************************************************)
(* Properties of concatenateBuffers (SpecConcat).                          *)
(***************************************************************************)
\* the sum of the lengths of the buffers before buffer b
OffsetOf(list, b) == SumLengths(SubSeq(list, 1, b - 1))

\* C30: for a non-empty list of buffers of one sample rate the call returns a
\* buffer whose length is the sum of the lengths and in which the samples of
\* every input stand, in order, from the sum of the lengths before it on.
C30_ConcatenationLayout ==
  LET list == concatLast.buffers
      res == concatLast.result
  IN  (/\ concatLast.called
       /\ list # << >>
       /\ \A b \in 1..Len(list) : list[b].sampleRate = list[1].sampleRate)
        => /\ res.status = "returned"
           /\ res.buffer.length = SumLengths(list)
           /\ \A b \in 1..Len(list) :
                \A c \in 1..list[b].numberOfChannels :
                  \A k \in 1..list[b].length :
                    /\ c <= res.buffer.numberOfChannels
                    /\ res.buffer.channels[c][OffsetOf(list, b) + k] = list[b].channels[c][k]

\* the same for lists whose buffers also have one number of channels
C30_SameChannelsLayout ==
  LET list == concatLast.buffers
      res == concatLast.result
  IN  (/\ concatLast.called
       /\ list # << >>
       /\ \A b \in 1..Len(list) :
            /\ list[b].sampleRate = list[1].sampleRate
            /\ list[b].numberOfChannels = list[1].numberOfChannels)
        => /\ res.status = "returned"
           /\ res.buffer.length = SumLengths(list)
           /\ res.buffer.sampleRate = list[1].sampleRate
           /\ \A b \in 1..Len(list) :
                \A c \in 1..list[b].numberOfChannels :
                  \A k \in 1..list[b].length :
                    res.buffer.channels[c][OffsetOf(list, b) + k] = list[b].channels[c][k]

(***************************************************************************)
(* Properties of mixBuffers (SpecMix) and applyFades (SpecFades).          *)
(***************************************************************************)
\* C31: the buffer mixBuffers returns is as long as the primary buffer,
\* whether the background is shorter (then it is repeated from its start)
\* or longer (then its excess is left out).
C31_MixKeepsPrimaryLength ==
  LET b1 == mixLast.buffer1
      b2 == mixLast.buffer2
      res == mixLast.result
      f == IF mixLast.attenuation = Undefined THEN 10 ELSE 1
  IN  mixLast.called =>
        /\ res.length = b1.length
        /\ \A c \in 1..res.numberOfChannels :
             /\ Len(res.channels[c]) = b1.length
             /\ \A k \in 1..b1.length :
                  LET c1 == IF c <= b1.numberOfChannels THEN c ELSE b1.numberOfChannels
                      c2 == IF c <= b2.numberOfChannels THEN c ELSE b2.numberOfChannels
                      back == CHOOSE j \in 1..b2.length :
                                \E q \in 0..b1.length : k = q * b2.length + j
                  IN  res.channels[c][k] = 10 * b1.channels[c1][k] + f * b2.channels[c2][back]

\* a background shorter than the primary buffer, repeated
C31_Witness ==
  /\ mixLast.called
  /\ mixLast.buffer1.length = 4
  /\ mixLast.buffer2.length = 3
  /\ mixLast.result.length = 4
  /\ mixLast.attenuation = -20
  /\ mixLast.result.channels[1][4] = 10 * mixLast.buffer1.channels[1][4]
                                        + mixLast.buffer2.channels[1][1]

\* the value of a sample, compared as a fraction
SameValue(a, b) == a.num * b.den = b.num * a.den

\* the number of samples a requested fade of ms milliseconds covers
RequestedSamples(ms, default, sampleRate) ==
  ((IF ms = Undefined THEN default ELSE ms) * sampleRate) \div 1000

\* C38: a fade-in of 0 ms leaves the samples before the fade-out region as
\* they were, and a fade-out of 0 ms leaves the samples after the fade-in
\* region as they were.
C38_ZeroFadeLeavesSamples ==
  LET b == fadeLast.buffer
      res == fadeLast.result
      inEnd == RequestedSamples(fadeLast.fadeIn, 3000, b.sampleRate)
      outStart == b.length - RequestedSamples(fadeLast.fadeOut, 6000, b.sampleRate)
  IN  fadeLast.called =>
        \A c \in 1..b.numberOfChannels : \A k \in 1..b.length :
          /\ (fadeLast.fadeIn = 0 /\ k - 1 < outStart)
                => SameValue(res.channels[c][k], b.channels[c][k])
          /\ (fadeLast.fadeOut = 0 /\ k - 1 >= inEnd)
                => SameValue(res.channels[c][k], b.channels[c][k])

(***************************************************************************)
(* Further properties of the MP3 encoder (SpecMP3).                        *)
(***************************************************************************)
\* C37: an encode that ended with the cancelled error has not reported the
\* progress value 100 (encProgress is the last and largest value reported
\* by the encode that ended last).
C37_NoFullProgressWhenCancelled ==
  encResult = MsgEncodingCancelled => encProgress # 100

\* C34: a cancelEncoding call made while an encode is in progress makes that
\* encode reject with the cancelled error, also when another encode is
\* started before it has finished.
C34_CancelNeverLost ==
  encHist.cancelled => encResult \in {"pending", MsgEncodingCancelled}

(***************************************************************************)
(* Playback with a second handlePlay after handleStop (SpecReplay).        *)
(***************************************************************************)
\* C35: after handleStop the stopped playback hands no further utterance to
\* speak(), also when handlePlay is invoked again before the stopped call
\* has settled.
C35_StoppedPlaybackIsSilent ==
  ~(playHist.stopped /\ playHist.spoken > 0)

(***************************************************************************)
(* Further properties of the generation pipeline (Spec).                   *)
(***************************************************************************)
\* C32: a generation during which a stop request was accepted
\* (generationCancelled stays set until the next submit) does not complete
\* with Program Audio: it ends cancelled.
C32_AcceptedStopCancels ==
  generationCancelled => outcome \in {"running", "cancelled"}

\* the first half of C32 alone: no Program Audio after an accepted stop
C32_NoAudioAfterStop ==
  generationCancelled => outcome # "complete"

\* C33: a generation that has failed at decoding a phrase was not given that
\* phrase's bytes by the cache (so a result that cannot be decoded is not
\* served again by the cache), and no blob that cannot be decoded is in the
\* cache when no generation runs.
C33_UndecodableNotCached ==
  /\ (outcome = "error" /\ errorShown \in {MsgEmptyBuffer, MsgDecode})
        => hist.read # "hit"
  /\ pc = "idle" =>
        \A k \in DOMAIN cacheStore : DecodeAudioData(cacheStore[k].blob) = "ok"

(***************************************************************************)
(* Overlapping handleSubmit invocations (SpecResubmit).                    *)
(***************************************************************************)
\* C36: isGenerating is true exactly while a generation run is in progress,
\* also when two submit handlers overlap.
C36_FlagTracksGeneration ==
  isGenerating <=> (pc # "idle" \/ gen2 = "running")

\* C36 for one handler at a time
C36_FlagTracksSingleRun ==
  gen2 = "none" => (isGenerating <=> pc # "idle")
====
